---- MODULE Spec2Model ----
(***************************************************************************)
(* Model of the kana layout optimizer: the layout grid (layout.rs), the    *)
(* corpus statistics (corpus.rs), the evaluator (evaluation.rs), the       *)
(* genetic algorithm (ga.rs) and the threads around a run (main.rs,        *)
(* tui.rs).                                                                *)
(*                                                                         *)
(* A symbol (a Rust String of one or two chars) is the tuple of its        *)
(* Unicode code points: <<12375, 12423>> is "shi" followed by small "yo".  *)
(* An f64 that the code only adds, multiplies, divides and compares is an  *)
(* exact rational; position costs are kept in tenths and key weights in    *)
(* thousandths. Where the rounding of f64 decides the result               *)
(* (summarize_results) the operations round, to MantissaBits bits. The     *)
(* position-cost score is an exponential of a sum of logarithms: it is     *)
(* exactly 0 or has no exact value and is kept as the positions and counts *)
(* it is computed from. A Layout is its grid and its fitness. The          *)
(* evaluation weights are limited to one core metric of weight 1 and to    *)
(* integer bonus weights, so that no power other than x^0 and x^1 is       *)
(* taken; colemak_similarity, tsuki_similarity and memorability, which are *)
(* read off the layout alone, have weight 0. ChaCha8Rng is a deterministic *)
(* stream of numbers, here a multiplicative congruential one.              *)
(*                                                                         *)
(* Specifications: Spec (a run of the genetic algorithm), SpecRandom       *)
(* (random_with_chars), SpecMutate (mutate), SpecMulti (the parallel runs  *)
(* of run_multi_with_storage and their summary), SpecEvaluate (evaluate),  *)
(* SpecValidate (validate), SpecCorpus (from_text), SpecCrossover          *)
(* (crossover and repair_layout), SpecSingle (the callback and the Ctrl+C  *)
(* handler of run_single), SpecTui and SpecTuiFair (the shutdown of the    *)
(* TUI thread, without and with fair scheduling of the threads).           *)
(*                                                                         *)
(* Loops over the grid are written as ranges split in halves, each half    *)
(* evaluated before the next one starts (Bind).                            *)
(***************************************************************************)
EXTENDS Integers, Sequences, FiniteSets, TLC

(* ------------------------------------------------------------------ *)
(* Bounds of the model                                                 *)
(* ------------------------------------------------------------------ *)
FirstSeed == 36
MaxSeed == 1
MaxPop == 2
MaxGen == 2
MaxRngState == 60
MaxElite == 2

(* ------------------------------------------------------------------ *)
(* layout.rs: constants and geometry                                   *)
(* ------------------------------------------------------------------ *)
ROWS == 3
COLS == 10
COLS_ROW1 == 11
NUM_LAYERS == 4
KEYS_PER_LAYER == COLS + COLS_ROW1 + COLS
FIXED_COUNT == 8
SHIFT_BLANK_COUNT == 4

cols_for_row(row) == IF row = 1 THEN COLS_ROW1 ELSE COLS

(* The blank token (U+3000), the empty string, the eight fixed symbols. *)
BLANK == <<12288>>
EMPTY == <<>>
SYM_STAR_BLACK == <<9733>>
SYM_STAR_WHITE == <<9734>>
SYM_DIAMOND == <<9670>>
SYM_COMMA == <<12289>>
SYM_PERIOD == <<12290>>
SYM_LONG == <<12540>>
SYM_MIDDOT == <<12539>>
SYM_SEMICOLON == <<59>>

(* Position costs in tenths (3.7 is 37); row 0 and row 2 use 10 columns. *)
POSITION_COSTS_L0 ==
  <<
    << 37, 20, 20, 24, 35, 39, 24, 20, 20, 37, 0 >>,
    << 15, 10, 0, 10, 24, 24, 10, 0, 10, 15, 0 >>,
    << 37, 28, 24, 20, 39, 30, 20, 0, 0, 0, 0 >>
  >>

POSITION_COSTS_L1 ==
  <<
    << 109, 58, 58, 71, 100, 112, 71, 174, 116, 217, 0 >>,
    << 44, 29, 29, 29, 71, 71, 29, 58, 58, 87, 0 >>,
    << 109, 82, 71, 58, 112, 87, 58, 213, 164, 217, 0 >>
  >>

POSITION_COSTS_L2 ==
  <<
    << 217, 116, 174, 71, 100, 112, 71, 58, 58, 109, 0 >>,
    << 87, 58, 58, 29, 71, 71, 29, 29, 29, 44, 0 >>,
    << 217, 164, 213, 58, 112, 87, 58, 71, 82, 109, 0 >>
  >>

POSITION_COSTS_L3 ==
  <<
    << 808, 432, 432, 529, 748, 837, 529, 432, 432, 0, 0 >>,
    << 324, 216, 216, 216, 529, 529, 216, 216, 216, 0, 0 >>,
    << 808, 611, 529, 432, 837, 648, 432, 529, 611, 0, 0 >>
  >>

get_position_cost(layer, row, col) ==
  CASE layer = 0 -> POSITION_COSTS_L0[row + 1][col + 1]
    [] layer = 1 -> POSITION_COSTS_L1[row + 1][col + 1]
    [] layer = 2 -> POSITION_COSTS_L2[row + 1][col + 1]
    [] layer = 3 -> POSITION_COSTS_L3[row + 1][col + 1]
    [] OTHER -> 0

is_blank_position(layer, row, col) ==
  CASE layer = 2 -> row = 1 /\ col = 10
    [] layer = 3 -> col = 9
    [] OTHER -> FALSE

is_fixed_position(layer, row, col) ==
  \/ layer = 0 /\ row = 1 /\ (col = 2 \/ col = 7)
  \/ layer = 0 /\ row = 2 /\ col = 9
  \/ layer = 0 /\ row = 2 /\ (col = 7 \/ col = 8)
  \/ layer = 0 /\ row = 1 /\ col = 10
  \/ layer = 1 /\ row = 1 /\ col = 10
  \/ layer = 3 /\ row = 1 /\ col = 10

(* The cells in the order of the nested loops                            *)
(* for layer { for row { for col in 0..cols_for_row(row) } }.            *)
CellAt(k) ==
  LET layer == (k - 1) \div KEYS_PER_LAYER
      o == (k - 1) % KEYS_PER_LAYER
      row == IF o < COLS THEN 0 ELSE IF o < COLS + COLS_ROW1 THEN 1 ELSE 2
      col == IF row = 0 THEN o ELSE IF row = 1 THEN o - COLS ELSE o - COLS - COLS_ROW1
  IN <<layer, row, col>>

Cells == [k \in 1..(KEYS_PER_LAYER * NUM_LAYERS) |-> CellAt(k)]

IsFree(p) == ~is_fixed_position(p[1], p[2], p[3]) /\ ~is_blank_position(p[1], p[2], p[3])

FreeCells == SelectSeq(Cells, IsFree)

(* HIRAGANA_FREQ_DEFAULT: the 112 placeable symbols in default frequency order. *)
HIRAGANA_FREQ_DEFAULT ==
  <<
    <<12356>>, <<12358>>, <<12435>>, <<12375>>, <<12363>>, <<12398>>, <<12392>>, <<12383>>,
    <<12390>>, <<12367>>, <<12394>>, <<12395>>, <<12365>>, <<12399>>, <<12371>>, <<12427>>,
    <<12364>>, <<12391>>, <<12387>>, <<12377>>, <<12414>>, <<12376>>, <<12426>>, <<12418>>,
    <<12388>>, <<12362>>, <<12425>>, <<12434>>, <<12373>>, <<12354>>, <<12428>>, <<12384>>,
    <<12385>>, <<12379>>, <<12369>>, <<12424>>, <<12393>>, <<12381>>, <<12360>>, <<12431>>,
    <<12415>>, <<12417>>, <<12402>>, <<12400>>, <<12420>>, <<12429>>, <<12411>>, <<12405>>,
    <<12406>>, <<12397>>, <<12372>>, <<12366>>, <<12370>>, <<12416>>, <<12378>>, <<12403>>,
    <<12374>>, <<12368>>, <<12380>>, <<12408>>, <<12409>>, <<12422>>, <<12412>>, <<12407>>,
    <<12382>>, <<12401>>, <<12413>>, <<12389>>, <<12404>>, <<12396>>, <<12410>>, <<12532>>,
    <<12386>>, <<12353>>, <<12355>>, <<12357>>, <<12359>>, <<12361>>, <<12375,12423>>, <<12376,12423>>,
    <<12375,12421>>, <<12365,12423>>, <<12375,12419>>, <<12385,12423>>, <<12376,12421>>, <<12426,12423>>, <<12365,12421>>, <<12385,12421>>,
    <<12366,12423>>, <<12395,12421>>, <<12402,12423>>, <<12376,12419>>, <<12385,12419>>, <<12426,12421>>, <<12365,12419>>, <<12403,12423>>,
    <<12426,12419>>, <<12366,12419>>, <<12404,12423>>, <<12404,12421>>, <<12403,12421>>, <<12415,12423>>, <<12402,12419>>, <<12415,12421>>,
    <<12395,12423>>, <<12415,12419>>, <<12395,12419>>, <<12402,12421>>, <<12403,12419>>, <<12404,12419>>, <<12366,12421>>, <<12386,12419>>
  >>

(* The rows written by Layout::improved_custom. *)
ImprovedCustomRows ==
  <<
    <<
      << <<12354>>, <<12392>>, <<12395>>, <<12427>>, <<12434>>, <<12385>>, <<12371>>, <<12367>>, <<12390>>, <<12373>> >>,
      << <<12363>>, <<12358>>, <<9733>>, <<12375>>, <<12383>>, <<12365>>, <<12435>>, <<9734>>, <<12356>>, <<12398>>, <<12540>> >>,
      << <<12428>>, <<12391>>, <<12364>>, <<12394>>, <<12384>>, <<12425>>, <<12399>>, <<12289>>, <<12290>>, <<9670>> >>
    >>,
    <<
      << <<12409>>, <<12393>>, <<12431>>, <<12375,12421>>, <<12368>>, <<12382>>, <<12366>>, <<12413>>, <<12365,12421>>, <<12410>> >>,
      << <<12379>>, <<12376>>, <<12377>>, <<12388>>, <<12406>>, <<12405>>, <<12387>>, <<12411>>, <<12429>>, <<12374>>, <<12539>> >>,
      << <<12376,12421>>, <<12378>>, <<12416>>, <<12402>>, <<12407>>, <<12403>>, <<12415>>, <<12395,12421>>, <<12385,12421>>, <<12396>> >>
    >>,
    <<
      << <<12426,12421>>, <<12401>>, <<12355>>, <<12370>>, <<12380>>, <<12426,12423>>, <<12372>>, <<12420>>, <<12417>>, <<12422>> >>,
      << <<12385,12423>>, <<12381>>, <<12424>>, <<12418>>, <<12397>>, <<12375,12423>>, <<12414>>, <<12426>>, <<12362>>, <<12369>>, <<12288>> >>,
      << <<12365,12419>>, <<12366,12423>>, <<12402,12423>>, <<12400>>, <<12412>>, <<12375,12419>>, <<12360>>, <<12376,12423>>, <<12365,12423>>, <<12408>> >>
    >>,
    <<
      << <<12402,12421>>, <<12426,12419>>, <<12366,12419>>, <<12415,12421>>, <<12395,12419>>, <<12386,12419>>, <<12415,12423>>, <<12532>>, <<12404,12423>>, <<12288>> >>,
      << <<12403,12423>>, <<12376,12419>>, <<12359>>, <<12404>>, <<12386>>, <<12403,12421>>, <<12389>>, <<12353>>, <<12385,12419>>, <<12288>>, <<59>> >>,
      << <<12403,12419>>, <<12357>>, <<12366,12421>>, <<12404,12421>>, <<12404,12419>>, <<12415,12419>>, <<12361>>, <<12402,12419>>, <<12395,12423>>, <<12288>> >>
    >>
  >>

(* A Vec built from a function on 1..n. *)
Vec(f) == SubSeq(f, 1, Len(f))

(* F(v), with v computed before F is entered: a loop over a range of
   indices runs its first half to the end, then its second half from the
   loop state the first half left. *)
Bind(v, F(_)) == CHOOSE r \in {F(y) : y \in {v}} : TRUE

(* A layout: layers[layer][row][col] of the source is
   layers[layer + 1][row + 1][col + 1] here. *)
MkLayout(layers) == [layers |-> layers, fitness |-> <<0, 1>>]

At(layers, p) == layers[p[1] + 1][p[2] + 1][p[3] + 1]

Put(layers, p, s) == [layers EXCEPT ![p[1] + 1][p[2] + 1][p[3] + 1] = s]

BlankRow(row) == Vec([col \in 1..cols_for_row(row) |-> BLANK])

BlankLayers ==
  Vec([layer \in 1..NUM_LAYERS |-> Vec([row \in 1..ROWS |-> BlankRow(row - 1)])])

(* Layout::default *)
LayoutDefault == MkLayout(BlankLayers)

(* Layout::improved_custom *)
(* The table with one entry mistyped: cell (1, 0, 0) repeats its neighbour. *)
improved_custom_mistyped ==
  MkLayout(Put(ImprovedCustomRows, <<1, 0, 0>>, At(ImprovedCustomRows, <<1, 0, 1>>)))

improved_custom == MkLayout(ImprovedCustomRows)

(* ------------------------------------------------------------------ *)
(* Exact rationals <<numerator, denominator>>, denominator > 0, in     *)
(* lowest terms: the f64 values the evaluator computes.                *)
(* ------------------------------------------------------------------ *)
RECURSIVE Gcd(_, _)
Gcd(a, b) == IF b = 0 THEN a ELSE Gcd(b, a % b)

Abs(x) == IF x < 0 THEN -x ELSE x

Rat(n, d) ==
  LET g == Gcd(Abs(n), d)
  IN IF n = 0 THEN <<0, 1>> ELSE <<n \div g, d \div g>>

RMul(a, b) == Rat(a[1] * b[1], a[2] * b[2])
RAdd(a, b) == Rat(a[1] * b[2] + b[1] * a[2], a[2] * b[2])
RSub(a, b) == Rat(a[1] * b[2] - b[1] * a[2], a[2] * b[2])
RDiv(a, b) == Rat(a[1] * b[2], a[2] * b[1])
(* a < b, compared by integer parts and then by the reciprocals of the
   fractional parts, so that no product leaves the integer range. *)
RECURSIVE RLess(_, _)
RLess(a, b) ==
  IF a[1] \div a[2] # b[1] \div b[2] THEN a[1] \div a[2] < b[1] \div b[2]
  ELSE IF b[1] % b[2] = 0 THEN FALSE
  ELSE IF a[1] % a[2] = 0 THEN TRUE
  ELSE RLess(<<b[2], b[1] % b[2]>>, <<a[2], a[1] % a[2]>>)
RMax(a, b) == IF RLess(a, b) THEN b ELSE a
RInt(n) == <<n, 1>>

RECURSIVE SumOver(_, _)
SumOver(S, f) ==
  IF S = {} THEN 0
  ELSE LET x == CHOOSE y \in S : TRUE IN f[x] + SumOver(S \ {x}, f)

Min(S) == CHOOSE x \in S : \A y \in S : x <= y

(* ------------------------------------------------------------------ *)
(* corpus.rs: CorpusStats                                              *)
(* ------------------------------------------------------------------ *)
(* is_hiragana: U+3041..U+3093, the long vowel mark U+30FC, U+3094.    *)
is_hiragana(c) == (12353 <= c /\ c <= 12435) \/ c = 12540 \/ c = 12436

Windows(chars, n) == {k \in 1..Len(chars) : k + n - 1 <= Len(chars)}

CountMap(chars, n) ==
  LET keys == {SubSeq(chars, k, k + n - 1) : k \in Windows(chars, n)}
  IN [g \in keys |-> Cardinality({k \in Windows(chars, n) : SubSeq(chars, k, k + n - 1) = g})]

(* add_symbol_chars: the full-width semicolon and the middle dot get count 1
   when the corpus does not hold them. *)
add_symbol_chars(char_freq) ==
  [g \in DOMAIN char_freq \cup {<<65307>>, <<12539>>} |->
    IF g \in DOMAIN char_freq THEN char_freq[g] ELSE 1]

(* The orders a stable sort by descending count can give the hiragana of
   char_freq: the HashMap's iteration order decides among equal counts. *)
IsPermOf(seq, S) ==
  /\ Len(seq) = Cardinality(S)
  /\ {seq[i] : i \in DOMAIN seq} = S

HiraganaOrders(char_freq) ==
  LET hs == {g[1] : g \in {h \in DOMAIN char_freq :
               is_hiragana(h[1]) /\ h[1] # 12289 /\ h[1] # 12290}}
      n == Cardinality(hs)
  IN {seq \in [1..n -> hs] :
        /\ IsPermOf(seq, hs)
        /\ \A i \in 1..(n - 1) : char_freq[<<seq[i]>>] >= char_freq[<<seq[i + 1]>>]}

(* CorpusStats::from_text with the hiragana order `order`. *)
from_text(text, order) ==
  [char_freq |-> add_symbol_chars(CountMap(text, 1)),
   bigram_freq |-> CountMap(text, 2),
   trigram_freq |-> CountMap(text, 3),
   fourgram_freq |-> CountMap(text, 4),
   hiragana_by_freq |-> order]

(* string_freq: the count of a symbol in the corpus, a single char by its
   1-gram count and a two-char symbol by its 2-gram count. *)
string_freq(corpus, s) ==
  IF Len(s) = 1 /\ s \in DOMAIN corpus.char_freq THEN corpus.char_freq[s]
  ELSE IF Len(s) = 2 /\ s \in DOMAIN corpus.bigram_freq THEN corpus.bigram_freq[s]
  ELSE 0

(* ------------------------------------------------------------------ *)
(* layout.rs: KeyPos and the symbol index                              *)
(* ------------------------------------------------------------------ *)
is_home(pos) == pos[2] = 1
is_left_hand(pos) == pos[3] < 5
finger(pos) ==
  CASE pos[3] \in {0, 9} -> 0
    [] pos[3] \in {1, 8} -> 1
    [] pos[3] \in {2, 7} -> 2
    [] pos[3] \in {3, 4, 5, 6} -> 3
    [] OTHER -> 0

(* KeyPos::weight in thousandths: row (1.0, 1.3, 1.2) x column x layer. *)
weight(pos) ==
  LET row_weight == CASE pos[2] = 1 -> 10 [] pos[2] = 0 -> 13 [] pos[2] = 2 -> 12 [] OTHER -> 20
      col_weight == CASE pos[3] \in {3, 4, 5, 6} -> 10
                      [] pos[3] \in {2, 7} -> 11
                      [] pos[3] \in {1, 8} -> 12
                      [] pos[3] \in {0, 9} -> 14
                      [] OTHER -> 15
      layer_weight == CASE pos[1] = 0 -> 10 [] pos[1] = 1 -> 20 [] pos[1] = 2 -> 22 [] OTHER -> 30
  IN row_weight * col_weight * layer_weight

(* The last such cell: what map.insert instead of entry().or_insert would
   leave. *)
LastCellOf(layers, c) ==
  Cells[CHOOSE k \in DOMAIN Cells :
          /\ LET s == At(layers, Cells[k]) IN Len(s) > 0 /\ s[1] = c
          /\ \A j \in DOMAIN Cells :
               (LET s == At(layers, Cells[j]) IN Len(s) > 0 /\ s[1] = c) => j <= k]

(* The first cell in traversal order whose symbol starts with char c. *)
FirstCellOf(layers, c) ==
  Cells[Min({k \in DOMAIN Cells : LET s == At(layers, Cells[k]) IN Len(s) > 0 /\ s[1] = c})]

(* Layout::build_char_map: first char of each symbol -> first position. *)
build_char_map(layers) ==
  LET keys == {At(layers, Cells[k])[1] :
                 k \in {j \in DOMAIN Cells : Len(At(layers, Cells[j])) > 0}} \ {12288, 0}
  IN [c \in keys |-> FirstCellOf(layers, c)]

(* Option: None is the empty sequence, Some(x) is <<x>>. *)
None == <<>>
Some(x) == <<x>>

(* ------------------------------------------------------------------ *)
(* evaluation.rs: Evaluator                                            *)
(* ------------------------------------------------------------------ *)
(* The sums of the 1-gram loop and of the 2-gram loop of compute_scores. *)
ScoreSums(corpus, char_map) ==
  LET cf == corpus.char_freq
      bf == corpus.bigram_freq
      placed == {g \in DOMAIN cf : g[1] \in DOMAIN char_map}
      counted == {b \in DOMAIN bf : b[1] \in DOMAIN char_map /\ b[2] \in DOMAIN char_map}
      sf == {b \in counted :
               /\ is_left_hand(char_map[b[1]]) = is_left_hand(char_map[b[2]])
               /\ finger(char_map[b[1]]) = finger(char_map[b[2]])}
  IN [total_chars |-> SumOver(placed, cf),
      missing_chars |-> SumOver(DOMAIN cf \ placed, cf),
      total_keystrokes |-> SumOver(placed, [g \in placed |-> weight(char_map[g[1]]) * cf[g]]),
      home_keystrokes |-> SumOver({g \in placed : is_home(char_map[g[1]])}, cf),
      single_keystrokes |-> SumOver({g \in placed : char_map[g[1]][1] = 0}, cf),
      layer1_keystrokes |-> SumOver({g \in placed : char_map[g[1]][1] = 1}, cf),
      layer2_keystrokes |-> SumOver({g \in placed : char_map[g[1]][1] = 2}, cf),
      bigram_counted |-> SumOver(counted, bf),
      same_finger |-> SumOver(sf, bf),
      row_skips |-> SumOver({b \in sf : Abs(char_map[b[1]][2] - char_map[b[2]][2]) > 1}, bf),
      alternating |-> SumOver({b \in counted :
                         is_left_hand(char_map[b[1]]) # is_left_hand(char_map[b[2]])}, bf)]

(* coverage = total_chars / corpus_total *)
Coverage(n) ==
  IF n.total_chars + n.missing_chars > 0
  THEN Rat(n.total_chars, n.total_chars + n.missing_chars)
  ELSE <<0, 1>>

(* A metric whose denominator is 0: `else { 0.0 }`. The same with the full
   score, as shift_balance has it. *)
FullScore == <<100, 1>>

ZeroScore == <<0, 1>>

(* The scores compute_scores derives from the sums. *)
ScoresOf(n, coverage, corpus_total) ==
  [row_skip |-> IF n.bigram_counted > 0
                THEN RMul(Rat(100 * (n.bigram_counted - n.row_skips), n.bigram_counted), coverage)
                ELSE ZeroScore,
   home_position |-> IF corpus_total > 0
                THEN Rat(100 * n.home_keystrokes, corpus_total)
                ELSE ZeroScore,
   total_keystrokes |-> IF n.total_chars > 0
                THEN RMul(RMul(<<100, 1>>,
                            RMax(RSub(<<1, 1>>,
                                      RDiv(RSub(Rat(n.total_keystrokes, 1000 * n.total_chars),
                                                <<1, 1>>),
                                           <<4, 1>>)),
                                 <<0, 1>>)),
                          coverage)
                ELSE ZeroScore,
   same_finger |-> IF n.bigram_counted > 0
                THEN RMul(Rat(100 * (n.bigram_counted - n.same_finger), n.bigram_counted), coverage)
                ELSE ZeroScore,
   single_key |-> IF corpus_total > 0
                THEN Rat(100 * n.single_keystrokes, corpus_total)
                ELSE ZeroScore,
   alternating |-> IF n.bigram_counted > 0
                THEN RMul(Rat(100 * n.alternating, n.bigram_counted), coverage)
                ELSE ZeroScore,
   shift_balance |-> IF n.layer1_keystrokes + n.layer2_keystrokes > 0
                THEN IF n.layer1_keystrokes < n.layer2_keystrokes
                     THEN Rat(100 * n.layer1_keystrokes, n.layer2_keystrokes)
                     ELSE Rat(100 * n.layer2_keystrokes, n.layer1_keystrokes)
                ELSE <<100, 1>>]

(* calc_trigram_scores: the sums of the 3-gram loop. A trigram counts when
   its three chars have a position; it is a roll or a redirect when the
   three keys are of one hand and of three different fingers. *)
TrigramSums(corpus, char_map) ==
  LET tf == corpus.trigram_freq
      counted == {t \in DOMAIN tf : \A k \in 1..3 : t[k] \in DOMAIN char_map}
      dir1(t) == finger(char_map[t[2]]) - finger(char_map[t[1]])
      dir2(t) == finger(char_map[t[3]]) - finger(char_map[t[2]])
      one_hand == {t \in counted :
                     /\ is_left_hand(char_map[t[1]]) = is_left_hand(char_map[t[2]])
                     /\ is_left_hand(char_map[t[2]]) = is_left_hand(char_map[t[3]])
                     /\ dir1(t) # 0 /\ dir2(t) # 0
                     /\ finger(char_map[t[1]]) # finger(char_map[t[3]])}
      rolls == {t \in one_hand : (dir1(t) > 0 /\ dir2(t) > 0) \/ (dir1(t) < 0 /\ dir2(t) < 0)}
  IN [trigram_counted |-> SumOver(counted, tf),
      roll_count |-> SumOver(rolls, tf),
      inroll_count |-> SumOver({t \in rolls : dir1(t) > 0}, tf),
      arpeggio_count |-> SumOver({t \in rolls : Abs(dir1(t)) = 1 /\ Abs(dir2(t)) = 1}, tf),
      redirect_count |-> SumOver({t \in one_hand :
                                   (dir1(t) > 0 /\ dir2(t) < 0) \/ (dir1(t) < 0 /\ dir2(t) > 0)}, tf)]

(* calc_trigram_scores: (roll, redirect_low, inroll, arpeggio); its
   coverage is 1.0 whenever a trigram counts. *)
calc_trigram_scores(corpus, char_map) ==
  Bind(TrigramSums(corpus, char_map), LAMBDA t :
    IF t.trigram_counted > 0
    THEN [roll |-> Rat(100 * t.roll_count, t.trigram_counted),
          redirect_low |-> Rat(100 * (t.trigram_counted - t.redirect_count), t.trigram_counted),
          inroll |-> Rat(100 * t.inroll_count, t.trigram_counted),
          arpeggio |-> Rat(100 * t.arpeggio_count, t.trigram_counted)]
    ELSE [roll |-> ZeroScore, redirect_low |-> ZeroScore,
          inroll |-> ZeroScore, arpeggio |-> ZeroScore])

(* calc_position_cost: total_freq is the count of the corpus chars that
   have a position, raised by a hundredth of itself for every blank cell,
   so that it is 0.0 exactly when no corpus char has a position; then the
   score is 0.0. Otherwise the score is min(exp(log_sum / total_freq), 1.0)
   * 100.0, a transcendental number: no exact value is given for it, only
   the positions and counts it is the geometric mean of. *)
calc_position_cost(corpus, char_map) ==
  LET cf == corpus.char_freq
      placed == {g \in DOMAIN cf : g[1] \in DOMAIN char_map}
  IN IF SumOver(placed, cf) = 0
     THEN [exact |-> Some(ZeroScore)]
     ELSE [exact |-> None,
           geometric_mean_of |-> [g \in placed |-> <<char_map[g[1]], cf[g]>>]]

(* compute_scores: the metrics of the 1-gram, 2-gram and 3-gram loops and
   the position cost. colemak_similarity, tsuki_similarity and memorability
   are read off the layout alone and are left out. *)
compute_scores(corpus, layers) ==
  Bind(build_char_map(layers), LAMBDA char_map :
    Bind(ScoreSums(corpus, char_map), LAMBDA n :
      Bind(Coverage(n), LAMBDA coverage :
        Bind(calc_trigram_scores(corpus, char_map), LAMBDA trigram :
          Bind(calc_position_cost(corpus, char_map), LAMBDA position_cost :
            ScoresOf(n, coverage, n.total_chars + n.missing_chars)
              @@ trigram @@ [position_cost |-> position_cost])))))

(* powf for the exponents the model's weights take: x^0 = 1, x^1 = x. *)
powf(x, w) == IF w = 0 THEN <<1, 1>> ELSE x

(* score / 100.0 without the floor *)
NormScoreUnfloored(m) == RDiv(m, <<100, 1>>)

(* (score / 100.0).max(0.01) *)
NormScore(m) == RMax(RDiv(m, <<100, 1>>), <<1, 100>>)

(* The five core metrics of compute_fitness, in the order of its product. *)
CoreMetrics == <<"same_finger", "row_skip", "home_position", "total_keystrokes", "alternating">>

(* core_product.powf(1.0 / total_core_weight) * 100.0, for the weight
   vectors of the model: one core metric has weight 1 and the others 0, so
   that total_core_weight is 1. *)
core_multiplier(scores, w) ==
  RMul(RMul(RMul(RMul(RMul(powf(NormScore(scores.same_finger), w.same_finger),
                           powf(NormScore(scores.row_skip), w.row_skip)),
                      powf(NormScore(scores.home_position), w.home_position)),
                 powf(NormScore(scores.total_keystrokes), w.total_keystrokes)),
            powf(NormScore(scores.alternating), w.alternating)),
       <<100, 1>>)

(* bonus_scale / 100.0. colemak_similarity, tsuki_similarity and
   memorability have weight 0 in the weight vectors of the model. *)
bonus_weight(w) ==
  w.single_key + w.position_cost + w.redirect_low + w.roll + w.inroll + w.arpeggio
    + w.shift_balance

(* additive_bonus without the term of position_cost *)
additive_bonus(scores, w) ==
  RAdd(RAdd(RAdd(RAdd(RAdd(RMul(scores.single_key, RInt(w.single_key)),
                           RMul(scores.redirect_low, RInt(w.redirect_low))),
                      RMul(scores.roll, RInt(w.roll))),
                 RMul(scores.inroll, RInt(w.inroll))),
            RMul(scores.arpeggio, RInt(w.arpeggio))),
       RMul(scores.shift_balance, RInt(w.shift_balance)))

(* compute_fitness: core_multiplier * (1.0 + additive_bonus / bonus_scale).
   Where position_cost has a weight and no exact value, the fitness has
   none either and is kept as its parts. *)
compute_fitness(scores, w) ==
  IF w.position_cost = 0 \/ scores.position_cost.exact # None
  THEN RMul(core_multiplier(scores, w),
            RAdd(<<1, 1>>,
                 RDiv(RAdd(additive_bonus(scores, w),
                           IF w.position_cost = 0 THEN <<0, 1>>
                           ELSE RMul(scores.position_cost.exact[1], RInt(w.position_cost))),
                      RInt(bonus_weight(w) * 100))))
  ELSE [core_multiplier |-> core_multiplier(scores, w),
        additive_bonus |-> [exact |-> additive_bonus(scores, w),
                            position_cost |-> scores.position_cost,
                            weight |-> w.position_cost],
        bonus_scale |-> RInt(bonus_weight(w) * 100)]

(* Evaluator::evaluate: the layout with its fitness recomputed. *)
evaluate(corpus, w, layout) ==
  Bind(compute_scores(corpus, layout.layers), LAMBDA scores :
    [layout EXCEPT !.fitness = compute_fitness(scores, w)])

(* ------------------------------------------------------------------ *)
(* The seeded generator (rand_chacha::ChaCha8Rng): a deterministic     *)
(* stream; its state is all that a draw reads and writes.              *)
(* ------------------------------------------------------------------ *)
seed_from_u64(seed) == 1 + (seed % 32748)

rng_step(s) == (16807 * s) % 32749

(* rng.gen_range(0..n) *)
gen_range(s, n) == [rng |-> rng_step(s), v |-> rng_step(s) % n]

(* rng.gen::<bool>() *)
gen_bool(s) == [rng |-> rng_step(s), v |-> 2 * rng_step(s) > 32749]

(* rng.gen::<f64>() < rate, rate = <<num, den>> *)
gen_f64_below(s, rate) ==
  [rng |-> rng_step(s), v |-> (rng_step(s) - 1) * rate[2] < rate[1] * 32748]

Swap(seq, i, j) == [k \in DOMAIN seq |-> IF k = i THEN seq[j] ELSE IF k = j THEN seq[i] ELSE seq[k]]

(* SliceRandom::shuffle: for i in (1..len).rev() { swap(i, gen_range(0..=i)) },
   on the 1-based sequence; the steps from index hi down to index lo. *)
ShuffleStep(acc, i) ==
  LET d == gen_range(acc.rng, i)
  IN [seq |-> SubSeq(Swap(acc.seq, i, d.v + 1), 1, Len(acc.seq)), rng |-> d.rng]

RECURSIVE ShuffleRange(_, _, _)
ShuffleRange(acc, hi, lo) ==
  IF hi < lo THEN acc
  ELSE IF hi = lo THEN ShuffleStep(acc, hi)
  ELSE Bind(ShuffleRange(acc, hi, (hi + lo) \div 2 + 1),
            LAMBDA upper : ShuffleRange(upper, (hi + lo) \div 2, lo))

shuffle(seq, s) == ShuffleRange([seq |-> seq, rng |-> s], Len(seq), 2)

(* ------------------------------------------------------------------ *)
(* layout.rs: Layout::random_with_chars                                *)
(* ------------------------------------------------------------------ *)
(* The writes with the full-width semicolon of add_symbol_chars on layer 3
   in place of the ASCII one. *)
WriteFixedFullWidth(layers) ==
  Put(Put(Put(Put(Put(Put(Put(Put(layers,
    <<0, 1, 2>>, SYM_STAR_BLACK),
    <<0, 1, 7>>, SYM_STAR_WHITE),
    <<0, 2, 9>>, SYM_DIAMOND),
    <<0, 2, 7>>, SYM_COMMA),
    <<0, 2, 8>>, SYM_PERIOD),
    <<0, 1, 10>>, SYM_LONG),
    <<1, 1, 10>>, SYM_MIDDOT),
    <<3, 1, 10>>, <<65307>>)

(* The eight fixed cells random_with_chars force-writes. *)
WriteFixed(layers) ==
  Put(Put(Put(Put(Put(Put(Put(Put(layers,
    <<0, 1, 2>>, SYM_STAR_BLACK),
    <<0, 1, 7>>, SYM_STAR_WHITE),
    <<0, 2, 9>>, SYM_DIAMOND),
    <<0, 2, 7>>, SYM_COMMA),
    <<0, 2, 8>>, SYM_PERIOD),
    <<0, 1, 10>>, SYM_LONG),
    <<1, 1, 10>>, SYM_MIDDOT),
    <<3, 1, 10>>, SYM_SEMICOLON)

total_positions == KEYS_PER_LAYER * NUM_LAYERS - FIXED_COUNT - SHIFT_BLANK_COUNT

(* The padding loop without chars.truncate(total_positions). *)
PadOnly(chars) ==
  Vec([k \in 1..(IF Len(chars) > total_positions THEN Len(chars) ELSE total_positions) |->
         IF k <= Len(chars) THEN chars[k] ELSE BLANK])

(* while chars.len() < total_positions { push blank }; truncate *)
PadTruncate(chars) ==
  Vec([k \in 1..total_positions |-> IF k <= Len(chars) THEN chars[k] ELSE BLANK])

(* One pass of the placement loop at cell k of the traversal. *)
PlaceStep(acc, k, chars) ==
  IF IsFree(Cells[k]) /\ acc.char_idx < Len(chars)
  THEN [layers |-> Put(acc.layers, Cells[k], chars[acc.char_idx + 1]),
        char_idx |-> acc.char_idx + 1]
  ELSE acc

(* The placement loop over cells lo..hi. *)
RECURSIVE PlaceRange(_, _, _, _)
PlaceRange(acc, lo, hi, chars) ==
  IF lo > hi THEN acc
  ELSE IF lo = hi THEN PlaceStep(acc, lo, chars)
  ELSE Bind(PlaceRange(acc, lo, (lo + hi) \div 2, chars),
            LAMBDA left : PlaceRange(left, (lo + hi) \div 2 + 1, hi, chars))

random_with_chars(s, hiragana_chars) ==
  Bind(shuffle(PadTruncate(hiragana_chars), s), LAMBDA sh :
    Bind(PlaceRange([layers |-> WriteFixed(BlankLayers), char_idx |-> 0],
                    1, Len(Cells), sh.seq),
         LAMBDA placed :
           [layout |-> MkLayout(placed.layers), rng |-> sh.rng,
            char_idx |-> placed.char_idx, chars |-> sh.seq]))

(* ------------------------------------------------------------------ *)
(* ga.rs: GeneticAlgorithm                                             *)
(* ------------------------------------------------------------------ *)
fixed_chars ==
  {SYM_STAR_BLACK, SYM_STAR_WHITE, SYM_DIAMOND, SYM_COMMA, SYM_PERIOD,
   SYM_LONG, SYM_MIDDOT, SYM_SEMICOLON}

(* The chars of the match in GeneticAlgorithm::new and with_weights. *)
KnownChars ==
  {
    12356, 12358, 12435, 12375, 12363, 12398, 12392, 12383, 12390, 12367, 12394, 12395,
    12365, 12399, 12371, 12427, 12364, 12391, 12387, 12377, 12414, 12376, 12426, 12418,
    12388, 12362, 12425, 12434, 12373, 12354, 12428, 12384, 12385, 12379, 12369, 12540,
    12424, 12393, 12381, 12360, 12431, 12415, 12417, 12402, 12400, 12420, 12429, 12411,
    12405, 12406, 12397, 12372, 12366, 12370, 12416, 12403, 12374, 12368, 12380, 12408,
    12409, 12422, 12412, 12407, 12382, 12401, 12404, 12389, 12410, 12396, 12413, 12532,
    12386, 12378, 12353, 12355, 12357, 12359, 12361
  }

(* The match of GeneticAlgorithm::new: a char of the table is its own
   one-char string, any other char is the blank token. *)
CharToStr(c) == IF c \in KnownChars THEN <<c>> ELSE BLANK

(* ensure_complete_charset *)
ensure_complete_charset(corpus_chars) ==
  LET result == SelectSeq(corpus_chars, LAMBDA x : x \notin fixed_chars)
      existing == {corpus_chars[i] : i \in DOMAIN corpus_chars}
  IN result \o SelectSeq(HIRAGANA_FREQ_DEFAULT,
                         LAMBDA c : c \notin existing /\ c \notin fixed_chars)

(* GeneticAlgorithm::new / with_weights: the symbol universe. *)
UniverseOf(corpus) ==
  ensure_complete_charset(Vec([i \in DOMAIN corpus.hiragana_by_freq |->
                                 CharToStr(corpus.hiragana_by_freq[i])]))

(* slice::sort_by on <<item, key>> pairs by ascending key: stable, so a
   pair goes after the pairs of smaller key and the earlier pairs of
   equal key. *)
StableSortAscending(pairs) ==
  Bind(Vec([i \in DOMAIN pairs |->
              1 + Cardinality({j \in DOMAIN pairs :
                                 \/ pairs[j][2] < pairs[i][2]
                                 \/ pairs[j][2] = pairs[i][2] /\ j < i})]),
       LAMBDA rank :
         Vec([k \in DOMAIN pairs |-> pairs[CHOOSE i \in DOMAIN pairs : rank[i] = k]]))

(* The scan of repair_layout: the symbols seen and the defective cells, in
   scan order. *)
IsDefective(s, seen) ==
  s \in fixed_chars \/ s = BLANK \/ s = EMPTY \/ s \in seen

ScanStep(acc, k, layers) ==
  LET p == Cells[k]
      s == At(layers, p)
  IN IF is_fixed_position(p[1], p[2], p[3]) \/ is_blank_position(p[1], p[2], p[3])
     THEN acc
     ELSE IF IsDefective(s, acc.seen)
          THEN [seen |-> acc.seen, duplicates |-> Append(acc.duplicates, p)]
          ELSE [seen |-> acc.seen \cup {s}, duplicates |-> acc.duplicates]

RECURSIVE ScanRange(_, _, _, _)
ScanRange(acc, lo, hi, layers) ==
  IF lo > hi THEN acc
  ELSE IF lo = hi THEN ScanStep(acc, lo, layers)
  ELSE Bind(ScanRange(acc, lo, (lo + hi) \div 2, layers),
            LAMBDA left : ScanRange(left, (lo + hi) \div 2 + 1, hi, layers))

(* Every blank position forced to the blank token. *)
BlankStep(layers, k) ==
  LET p == Cells[k]
  IN IF is_blank_position(p[1], p[2], p[3]) THEN Put(layers, p, BLANK) ELSE layers

RECURSIVE WriteBlanksRange(_, _, _)
WriteBlanksRange(layers, lo, hi) ==
  IF lo > hi THEN layers
  ELSE IF lo = hi THEN BlankStep(layers, lo)
  ELSE Bind(WriteBlanksRange(layers, lo, (lo + hi) \div 2),
            LAMBDA left : WriteBlanksRange(left, (lo + hi) \div 2 + 1, hi))

WriteBlanks(layers) == WriteBlanksRange(layers, 1, Len(Cells))

(* The loop that gives every defective cell the first missing symbol. *)
FillStepFirstMissing(layers, i, duplicate_positions, missing_with_freq) ==
  IF i <= Len(missing_with_freq)
  THEN Put(layers, duplicate_positions[i][1], missing_with_freq[1][1])
  ELSE layers

(* The replacement loop: defective cell i takes missing symbol i, when
   there is one. *)
FillStep(layers, i, duplicate_positions, missing_with_freq) ==
  IF i <= Len(missing_with_freq)
  THEN Put(layers, duplicate_positions[i][1], missing_with_freq[i][1])
  ELSE layers

RECURSIVE FillRange(_, _, _, _, _)
FillRange(layers, lo, hi, duplicate_positions, missing_with_freq) ==
  IF lo > hi THEN layers
  ELSE IF lo = hi THEN FillStep(layers, lo, duplicate_positions, missing_with_freq)
  ELSE Bind(FillRange(layers, lo, (lo + hi) \div 2, duplicate_positions, missing_with_freq),
            LAMBDA left : FillRange(left, (lo + hi) \div 2 + 1, hi,
                                    duplicate_positions, missing_with_freq))

(* The eight fixed cells repair_layout force-writes. *)
ForceFixed(layers) ==
  Put(Put(Put(Put(Put(Put(Put(Put(layers,
    <<0, 1, 2>>, <<9733>>),
    <<0, 1, 7>>, <<9734>>),
    <<0, 2, 9>>, <<9670>>),
    <<0, 2, 7>>, <<12289>>),
    <<0, 2, 8>>, <<12290>>),
    <<0, 1, 10>>, <<12540>>),
    <<1, 1, 10>>, <<12539>>),
    <<3, 1, 10>>, <<59>>)

(* The defective cells left in scan order: every cost taken as equal. *)
WithEqualCost(p) == <<p, 0>>

(* What repair_layout computes before it writes the replacements. *)
WithCost(p) == <<p, get_position_cost(p[1], p[2], p[3])>>

RepairPlan(corpus, hiragana_chars, layers) ==
  Bind(WriteBlanks(ForceFixed(layers)), LAMBDA forced :
    Bind(ScanRange([seen |-> {}, duplicates |-> <<>>], 1, Len(Cells), forced),
         LAMBDA scan :
      Bind(SelectSeq(hiragana_chars,
                     LAMBDA c : c \notin fixed_chars /\ c \notin scan.seen),
           LAMBDA missing :
        [forced |-> forced,
         seen |-> scan.seen,
         duplicates |-> scan.duplicates,
         missing |-> missing,
         duplicate_positions |->
           StableSortAscending(Vec([i \in DOMAIN scan.duplicates |->
                                      WithCost(scan.duplicates[i])])),
         missing_with_freq |->
           StableSortAscending(Vec([i \in DOMAIN missing |->
                                      <<missing[i], 0 - string_freq(corpus, missing[i])>>]))])))

(* GeneticAlgorithm::repair_layout *)
repair_layout(corpus, hiragana_chars, layers) ==
  Bind(RepairPlan(corpus, hiragana_chars, layers),
       LAMBDA plan : FillRange(plan.forced, 1, Len(plan.duplicate_positions),
                               plan.duplicate_positions, plan.missing_with_freq))

(* tournament_select: 5 indices drawn with replacement, the first of the
   fittest kept; best = 0 is None. *)
tournament_size == 5

RECURSIVE TournamentFrom(_, _, _, _)
TournamentFrom(population, n, best, s) ==
  IF n = 0 THEN [idx |-> best, rng |-> s]
  ELSE LET d == gen_range(s, Len(population))
           idx == d.v + 1
       IN IF best = 0 \/ RLess(population[best].fitness, population[idx].fitness)
          THEN TournamentFrom(population, n - 1, idx, d.rng)
          ELSE TournamentFrom(population, n - 1, best, d.rng)

(* The tournament that replaces its best by a sample of equal fitness. *)
RECURSIVE TournamentKeepLast(_, _, _, _)
TournamentKeepLast(population, n, best, s) ==
  IF n = 0 THEN [idx |-> best, rng |-> s]
  ELSE LET d == gen_range(s, Len(population))
           idx == d.v + 1
       IN IF best = 0 \/ ~RLess(population[idx].fitness, population[best].fitness)
          THEN TournamentKeepLast(population, n - 1, idx, d.rng)
          ELSE TournamentKeepLast(population, n - 1, best, d.rng)

tournament_select_last(population, s) ==
  Bind(TournamentKeepLast(population, tournament_size, 0, s), LAMBDA t :
    [layout |-> population[t.idx], idx |-> t.idx, rng |-> t.rng])

tournament_select(population, s) ==
  Bind(TournamentFrom(population, tournament_size, 0, s), LAMBDA t :
    [layout |-> population[t.idx], idx |-> t.idx, rng |-> t.rng])

(* One pass of the crossover loop at cell k of the traversal. *)
CrossStep(acc, k, parent1, parent2) ==
  LET p == Cells[k]
  IN IF is_fixed_position(p[1], p[2], p[3])
     THEN [layers |-> Put(acc.layers, p, At(parent1, p)), rng |-> acc.rng]
     ELSE IF is_blank_position(p[1], p[2], p[3])
     THEN [layers |-> Put(acc.layers, p, BLANK), rng |-> acc.rng]
     ELSE LET d == gen_bool(acc.rng)
          IN IF d.v
             THEN [layers |-> Put(acc.layers, p, At(parent1, p)), rng |-> d.rng]
             ELSE [layers |-> Put(acc.layers, p, At(parent2, p)), rng |-> d.rng]

RECURSIVE CrossRange(_, _, _, _, _)
CrossRange(acc, lo, hi, parent1, parent2) ==
  IF lo > hi THEN acc
  ELSE IF lo = hi THEN CrossStep(acc, lo, parent1, parent2)
  ELSE Bind(CrossRange(acc, lo, (lo + hi) \div 2, parent1, parent2),
            LAMBDA left : CrossRange(left, (lo + hi) \div 2 + 1, hi, parent1, parent2))

(* GeneticAlgorithm::crossover: raw is the child before the repair. *)
crossover(corpus, hiragana_chars, parent1, parent2, s) ==
  Bind(CrossRange([layers |-> LayoutDefault.layers, rng |-> s], 1, Len(Cells),
                  parent1.layers, parent2.layers),
       LAMBDA x :
         [raw |-> x.layers,
          layout |-> MkLayout(repair_layout(corpus, hiragana_chars, x.layers)),
          rng |-> x.rng])

(* (cost1 - cost2).abs() <= 0.1 on f64 costs given in tenths: the f64
   difference of 2.9 and 2.8, and of 3.0 and 2.9, is above the f64 0.1;
   that of every other pair of table costs one tenth apart is not. *)
CostWithinTolerance(cost1, cost2) ==
  /\ Abs(cost1 - cost2) <= 1
  /\ {cost1, cost2} \notin {{28, 29}, {29, 30}}

(* freq_ok that lets a symbol the corpus does not hold be exchanged with
   any symbol. *)
FreqWithinToleranceOrZero(freq1, freq2) ==
  IF freq1 = 0 \/ freq2 = 0 THEN TRUE
  ELSE 10 * freq2 >= 9 * freq1 /\ 10 * freq2 <= 11 * freq1

(* freq_ok of mutate, freq_tolerance = 0.1 *)
FreqWithinTolerance(freq1, freq2) ==
  IF freq1 = 0 /\ freq2 = 0 THEN TRUE
  ELSE IF freq1 > 0 /\ freq2 > 0
       THEN 10 * freq2 >= 9 * freq1 /\ 10 * freq2 <= 11 * freq1
       ELSE FALSE

(* positions of mutate: entry i is free cell i with its cost and the
   frequency of its symbol. The swap partners of entry idx1. *)
PositionCost(i) == get_position_cost(FreeCells[i][1], FreeCells[i][2], FreeCells[i][3])

PositionFreq(corpus, layers, i) == string_freq(corpus, At(layers, FreeCells[i]))

MutateCandidates(corpus, layers, idx1) ==
  SelectSeq(Vec([i \in DOMAIN FreeCells |-> i]),
            LAMBDA idx :
              /\ idx # idx1
              /\ CostWithinTolerance(PositionCost(idx1), PositionCost(idx))
              /\ FreqWithinTolerance(PositionFreq(corpus, layers, idx1),
                                     PositionFreq(corpus, layers, idx)))

(* The swap of mutate. *)
SwapCells(layers, p1, p2) ==
  LET tmp == At(layers, p1)
  IN Put(Put(layers, p1, At(layers, p2)), p2, tmp)

(* mutate falling back to any other free cell when no cell is within the
   tolerances. *)
mutate_at_relaxed(corpus, layers, idx1, s) ==
  Bind(MutateCandidates(corpus, layers, idx1), LAMBDA candidates :
    Bind(IF candidates # <<>> THEN candidates
         ELSE SelectSeq(Vec([i \in DOMAIN FreeCells |-> i]), LAMBDA idx : idx # idx1),
         LAMBDA pool :
           Bind(pool[gen_range(s, Len(pool)).v + 1], LAMBDA idx2 :
             [layers |-> SwapCells(layers, FreeCells[idx1], FreeCells[idx2]),
              rng |-> gen_range(s, Len(pool)).rng,
              idx1 |-> idx1, idx2 |-> idx2, candidates |-> candidates])))

(* GeneticAlgorithm::mutate with the first pick idx1 (an index into
   positions, from 1) already drawn. *)
mutate_at(corpus, layers, idx1, s) ==
  Bind(MutateCandidates(corpus, layers, idx1), LAMBDA candidates :
    IF candidates # <<>>
    THEN Bind(candidates[gen_range(s, Len(candidates)).v + 1], LAMBDA idx2 :
           [layers |-> SwapCells(layers, FreeCells[idx1], FreeCells[idx2]),
            rng |-> gen_range(s, Len(candidates)).rng,
            idx1 |-> idx1, idx2 |-> idx2, candidates |-> candidates])
    ELSE [layers |-> layers, rng |-> s, idx1 |-> idx1, idx2 |-> 0,
          candidates |-> candidates])

(* GeneticAlgorithm::mutate *)
mutate(corpus, layers, s) ==
  IF Len(FreeCells) >= 2
  THEN LET d1 == gen_range(s, Len(FreeCells))
       IN mutate_at(corpus, layers, d1.v + 1, d1.rng)
  ELSE [layers |-> layers, rng |-> s, idx1 |-> 0, idx2 |-> 0, candidates |-> <<>>]

(* population.sort_by(|a, b| b.fitness.partial_cmp(&a.fitness)): stable,
   descending. *)
sort_by_fitness(seq) ==
  Bind(Vec([i \in DOMAIN seq |->
              1 + Cardinality({j \in DOMAIN seq :
                                 \/ RLess(seq[i].fitness, seq[j].fitness)
                                 \/ seq[j].fitness = seq[i].fitness /\ j < i})]),
       LAMBDA rank :
         Vec([k \in DOMAIN seq |-> seq[CHOOSE i \in DOMAIN seq : rank[i] = k]]))


(* ------------------------------------------------------------------ *)
(* f64 arithmetic with its rounding, for the code whose result depends *)
(* on it (summarize_results): a binary floating-point format with      *)
(* MantissaBits significant bits (53 in an f64) and round to nearest,  *)
(* ties to even, on every operation. A value is the rational it        *)
(* stands for.                                                         *)
(* ------------------------------------------------------------------ *)
MantissaBits == 4

RECURSIVE Pow2(_)
Pow2(n) == IF n = 0 THEN 1 ELSE 2 * Pow2(n - 1)

RNeg(a) == <<0 - a[1], a[2]>>

RLeq(a, b) == ~RLess(b, a)

(* The integer nearest to q, the even one of two equally near. *)
RoundHalfEven(q) ==
  LET m == q[1] \div q[2]
      twice == 2 * (q[1] % q[2])
  IN IF twice > q[2] \/ (twice = q[2] /\ m % 2 = 1) THEN m + 1 ELSE m

(* q > 0 rounded to MantissaBits significant bits. *)
RECURSIVE RoundPositive(_)
RoundPositive(q) ==
  IF RLeq(RInt(Pow2(MantissaBits)), q)
  THEN RMul(RInt(2), RoundPositive(RDiv(q, RInt(2))))
  ELSE IF RLess(q, RInt(Pow2(MantissaBits - 1)))
       THEN RDiv(RoundPositive(RMul(q, RInt(2))), RInt(2))
       ELSE RInt(RoundHalfEven(q))

fround(q) ==
  IF q[1] = 0 THEN q
  ELSE IF q[1] < 0 THEN RNeg(RoundPositive(RNeg(q)))
  ELSE RoundPositive(q)

(* The f64 operators +, -, *, / *)
fadd(a, b) == fround(RAdd(a, b))
fsub(a, b) == fround(RSub(a, b))
fmul(a, b) == fround(RMul(a, b))
fdiv(a, b) == fround(RDiv(a, b))

(* f64::sqrt, correctly rounded: the argument is scaled by a power of 4
   until its root has MantissaBits integer bits. *)
ISqrt(x) == CHOOSE m \in 0..Pow2(MantissaBits) : m * m <= x /\ x < (m + 1) * (m + 1)

RECURSIVE SqrtPositive(_)
SqrtPositive(q) ==
  IF RLeq(RInt(Pow2(2 * MantissaBits)), q)
  THEN RMul(RInt(2), SqrtPositive(RDiv(q, RInt(4))))
  ELSE IF RLess(q, RInt(Pow2(2 * MantissaBits - 2)))
       THEN RDiv(SqrtPositive(RMul(q, RInt(4))), RInt(2))
       ELSE LET m == ISqrt(q[1] \div q[2])
            IN IF RLess(<<4 * (m * m + m) + 1, 4>>, q) THEN RInt(m + 1) ELSE RInt(m)

fsqrt(q) == IF q[1] = 0 THEN q ELSE SqrtPositive(q)

(* Iterator::sum::<f64>(): the elements added in order to 0.0 *)
RECURSIVE fsum(_)
fsum(seq) ==
  IF seq = <<>> THEN <<0, 1>>
  ELSE fadd(fsum(SubSeq(seq, 1, Len(seq) - 1)), seq[Len(seq)])
(* validate scanning every cell, the fixed cells and the blank positions
   as well. *)
validate_every_cell(layers, expected_chars) ==
  LET held == {k \in DOMAIN Cells :
                 At(layers, Cells[k]) # BLANK /\ At(layers, Cells[k]) # EMPTY}
      found_chars == {At(layers, Cells[k]) : k \in held}
      positions(s) == {k \in held : At(layers, Cells[k]) = s}
      expected == {expected_chars[i] : i \in DOMAIN expected_chars}
  IN [duplicates |-> {s \in found_chars : Cardinality(positions(s)) > 1},
      missing |-> expected \ found_chars,
      extra |-> found_chars \ expected,
      total_found |-> Cardinality(found_chars),
      total_expected |-> Cardinality(expected)]

(* Layout::validate: the symbols of the free cells checked against
   expected_chars. The vectors the code collects from hash sets are sets. *)
validate(layers, expected_chars) ==
  LET held == {k \in DOMAIN FreeCells :
                 At(layers, FreeCells[k]) # BLANK /\ At(layers, FreeCells[k]) # EMPTY}
      found_chars == {At(layers, FreeCells[k]) : k \in held}
      positions(s) == {k \in held : At(layers, FreeCells[k]) = s}
      expected == {expected_chars[i] : i \in DOMAIN expected_chars}
  IN [duplicates |-> {s \in found_chars : Cardinality(positions(s)) > 1},
      missing |-> expected \ found_chars,
      extra |-> found_chars \ expected,
      total_found |-> Cardinality(found_chars),
      total_expected |-> Cardinality(expected)]

(* ValidationResult::is_valid *)
is_valid(v) == v.duplicates = {}

(* ------------------------------------------------------------------ *)
(* The inputs of a run                                                 *)
(* ------------------------------------------------------------------ *)
(* The short text a corpus is built from: "shi ya shi yu", whose small ya
   and small yu are hiragana outside the table of GeneticAlgorithm::new. *)
Texts == {<<12375, 12419, 12375, 12421>>}

(* A text of thirty different kana, a i u e o ka ki ku ke ko ... ha hi fu
   he ho, each once. *)
LongText ==
  <<12354, 12356, 12358, 12360, 12362, 12363, 12365, 12367, 12369, 12371,
    12373, 12375, 12377, 12379, 12381, 12383, 12385, 12388, 12390, 12392,
    12394, 12395, 12396, 12397, 12398, 12399, 12402, 12405, 12408, 12411>>

(* config.mutation_rate *)
MutationRates == {<<1, 2>>, <<1, 1>>}

NoWeights ==
  [same_finger |-> 0, row_skip |-> 0, home_position |-> 0, total_keystrokes |-> 0,
   alternating |-> 0, single_key |-> 0, position_cost |-> 0, redirect_low |-> 0,
   roll |-> 0, inroll |-> 0, arpeggio |-> 0, shift_balance |-> 0]

(* EvaluationWeights: one core metric with weight 1 and bonus metrics. *)
KeystrokeWeights ==
  [NoWeights EXCEPT !.total_keystrokes = 1, !.single_key = 2, !.shift_balance = 1]

AlternationWeights == [NoWeights EXCEPT !.alternating = 1, !.single_key = 1]


VARIABLES
  config,           \* GaConfig
  corpus,           \* evaluator.corpus
  weights,          \* evaluator.weights
  baseline,         \* what set_baseline was given
  hiragana_chars,   \* the symbol universe
  rng,              \* the seeded generator
  population, new_population,
  best_layout, best_fitness, fitness_history,
  gen,              \* the generation being built
  pc,               \* where run_with_callback stands
  callbacks,        \* the calls made to the observer, in order
  result,           \* the returned GaResult
  last,             \* what the last step did to its layouts
  entropy,          \* the state of the process outside the engine
  first_run         \* the record of an earlier run of the same inputs

(* The multi-run of run_multi_with_storage and its caller. *)
VARIABLES
  job,                \* per seed: where the closure stands and its result
  mutex,              \* the holder of the lock of completed_storage
  completed_storage,  \* the shared Vec<GaResult>
  storage_before,     \* completed_storage when run_multi_with_storage was called
  multi_pc,           \* where the calling thread stands
  returned,           \* the Vec<GaResult> returned
  summary             \* what summarize_results returned

engine_vars ==
  <<config, corpus, weights, baseline, hiragana_chars, rng, population,
    new_population, best_layout, best_fitness, fitness_history, gen, pc,
    callbacks, result, last, entropy, first_run>>

multi_vars ==
  <<job, mutex, completed_storage, storage_before, multi_pc, returned, summary>>

(* The threads of main.rs around a run. *)
VARIABLES
  single,   \* run_single: the two shared cells, their mutexes, the callback and the handler
  tui       \* run_with_tui: TuiState.running, its mutex, the TUI thread and the main thread

thread_vars == <<single, tui>>

vars == <<engine_vars, multi_vars, thread_vars>>

(* The threads of main.rs while an engine or a multi-run is followed. *)
IdleSingle == [main |-> "idle"]

IdleTui == [main |-> "idle"]

IdleThreads == single = IdleSingle /\ tui = IdleTui

(* The variables of the multi-run while a single engine is followed. *)
IdleMulti ==
  /\ job = <<>>
  /\ mutex = None
  /\ completed_storage = <<>>
  /\ storage_before = <<>>
  /\ multi_pc = "idle"
  /\ returned = <<>>
  /\ summary = None

(* A generator seeded from the seed and from the state of the process. *)
NewRngFromEntropy(cfg) == seed_from_u64(cfg.seed + entropy)

(* ChaCha8Rng::seed_from_u64(config.seed) in new and with_weights *)
NewRng(cfg) == seed_from_u64(cfg.seed)

(* GeneticAlgorithm::with_weights, and the locals of run_with_callback
   before its first statement. *)
Construct(cfg, cps, w) ==
  /\ config = cfg
  /\ corpus = cps
  /\ weights = w
  /\ baseline = None
  /\ hiragana_chars = UniverseOf(cps)
  /\ rng = NewRng(cfg)
  /\ population = <<>>
  /\ new_population = <<>>
  /\ best_layout = LayoutDefault
  /\ best_fitness = <<0, 1>>
  /\ fitness_history = <<>>
  /\ gen = 0
  /\ pc = "start"
  /\ callbacks = <<>>
  /\ result = None
  /\ last = [op |-> "new"]

(* config.seed: consecutive seeds; among the runs of the first one are a
   generation that falls behind the best so far and one that improves it. *)
Seeds == FirstSeed..(FirstSeed + MaxSeed)

Configs ==
  [population_size : 0..MaxPop, generations : 0..MaxGen,
   mutation_rate : MutationRates, elite_count : 0..MaxElite, seed : Seeds]

(* The corpora of the short texts with every order the sort of from_text
   can leave their equally frequent kana in, and the corpus of the long
   text with its kana in text order. *)
ShortCorpora ==
  UNION {{from_text(text, order) : order \in HiraganaOrders(CountMap(text, 1))} :
           text \in Texts}

LongCorpus == from_text(LongText, LongText)

Corpora == ShortCorpora \cup {LongCorpus}

(* The corpus and the weights an engine is built from. *)
Inputs ==
  (ShortCorpora \X {KeystrokeWeights}) \cup ({LongCorpus} \X {AlternationWeights})

Init ==
  /\ IdleMulti
  /\ IdleThreads
  /\ entropy = 0
  /\ first_run = None
  /\ \E cfg \in Configs, input \in Inputs : Construct(cfg, input[1], input[2])

Repair(layers) == repair_layout(corpus, hiragana_chars, layers)
Evaluate(layout) == evaluate(corpus, weights, layout)

(* The random members of the initial population, drawn one after another. *)
RECURSIVE RandomMembers(_, _)
RandomMembers(n, s) ==
  IF n = 0 THEN [layouts |-> <<>>, rng |-> s]
  ELSE Bind(random_with_chars(s, hiragana_chars), LAMBDA r :
         Bind(RandomMembers(n - 1, r.rng), LAMBDA rest :
           [layouts |-> <<Evaluate(MkLayout(Repair(r.layout.layers)))>> \o rest.layouts,
            rng |-> rest.rng]))

second_best(pop) == IF Len(pop) >= 2 THEN Some(<<pop[2].fitness, pop[2]>>) ELSE None

Callback(generation, fitness, layout, second) ==
  [generation |-> generation, best_fitness |-> fitness, best_layout |-> layout,
   second_best |-> second]

(* A history that records a value only when it differs from the last one. *)
PushHistoryOnChange(history, fitness) ==
  IF history # <<>> /\ history[Len(history)] = fitness
  THEN history
  ELSE Append(history, fitness)

(* fitness_history.push(best_fitness) *)
PushHistory(history, fitness) == Append(history, fitness)

(* run_with_callback up to the callback of generation 0. *)
InitialPopulation ==
  /\ pc = "start"
  /\ \E custom_layout \in {Evaluate(MkLayout(Repair(improved_custom.layers)))} :
     \E rest \in {RandomMembers(IF config.population_size >= 1
                                 THEN config.population_size - 1 ELSE 0, rng)} :
     \E sorted \in {sort_by_fitness(<<custom_layout>> \o rest.layouts)} :
        /\ baseline' = Some(compute_scores(corpus, custom_layout.layers).total_keystrokes)
        /\ rng' = rest.rng
        /\ population' = sorted
        /\ best_layout' = sorted[1]
        /\ best_fitness' = sorted[1].fitness
        /\ fitness_history' = PushHistory(fitness_history, sorted[1].fitness)
        /\ callbacks' = Append(callbacks,
             Callback(0, sorted[1].fitness, sorted[1], second_best(sorted)))
        /\ last' = [op |-> "init", custom |-> custom_layout]
  /\ gen' = 1
  /\ pc' = IF config.generations >= 1 THEN "elite" ELSE "final"
  /\ UNCHANGED <<multi_vars, thread_vars, config, corpus, weights, hiragana_chars, new_population, result,
                 entropy, first_run>>

(* No member carried over. *)
ElitesDropped(pop, elite_count) == <<>>

(* elite_count clones whatever the size of the population: past its end
   the last member again. *)
ElitesUnclamped(pop, elite_count) ==
  Vec([i \in 1..elite_count |-> pop[IF i < Len(pop) THEN i ELSE Len(pop)]])

(* The last elite_count members instead of the first. *)
ElitesFromEnd(pop, elite_count) ==
  SubSeq(pop, 1 + (IF elite_count < Len(pop) THEN Len(pop) - elite_count ELSE 0), Len(pop))

ElitesOf(pop, elite_count) ==
  SubSeq(pop, 1, IF elite_count < Len(pop) THEN elite_count ELSE Len(pop))

(* The head of a generation: the elites are cloned into the new population. *)
ElitePreserve ==
  /\ pc = "elite"
  /\ new_population' = ElitesOf(population, config.elite_count)
  /\ last' = [op |-> "elite"]
  /\ pc' = "breed"
  /\ UNCHANGED <<multi_vars, thread_vars, config, corpus, weights, baseline, hiragana_chars, rng, population,
                 best_layout, best_fitness, fitness_history, gen, callbacks, result,
                 entropy, first_run>>

(* One pass of the while loop: two tournaments, crossover, the mutation
   draw, mutate and repair when it fires, evaluate. *)
MutateAndRepair(layers, s) ==
  Bind(mutate(corpus, layers, s), LAMBDA m :
    [layers |-> Repair(m.layers), rng |-> m.rng])

BreedStep(pop, s) ==
  Bind(tournament_select(pop, s), LAMBDA parent1 :
    Bind(tournament_select(pop, parent1.rng), LAMBDA parent2 :
      Bind(crossover(corpus, hiragana_chars, parent1.layout, parent2.layout, parent2.rng),
           LAMBDA child :
        Bind(gen_f64_below(child.rng, config.mutation_rate), LAMBDA draw :
          Bind(IF draw.v
               THEN MutateAndRepair(child.layout.layers, draw.rng)
               ELSE [layers |-> child.layout.layers, rng |-> draw.rng],
               LAMBDA m :
                 [child |-> Evaluate(MkLayout(m.layers)),
                  rng |-> m.rng,
                  parent1 |-> parent1.layout, parent2 |-> parent2.layout,
                  raw |-> child.raw, crossed |-> child.layout.layers,
                  mutated |-> draw.v])))))

Breed ==
  /\ pc = "breed"
  /\ Len(new_population) < config.population_size
  /\ \E b \in {BreedStep(population, rng)} :
        /\ new_population' = Append(new_population, b.child)
        /\ rng' = b.rng
        /\ last' = [op |-> "breed", parent1 |-> b.parent1, parent2 |-> b.parent2,
                    raw |-> b.raw, crossed |-> b.crossed, mutated |-> b.mutated,
                    child |-> b.child, rng |-> rng]
  /\ UNCHANGED <<multi_vars, thread_vars, config, corpus, weights, baseline, hiragana_chars, population,
                 best_layout, best_fitness, fitness_history, gen, pc, callbacks,
                 result, entropy, first_run>>

(* The update without its comparison: the best of the generation replaces
   the best so far. *)
BestOfGeneration(fitness, layout, sorted) ==
  [fitness |-> sorted[1].fitness, layout |-> sorted[1]]

(* if population[0].fitness > best_fitness { best_fitness = ...; best_layout = ... } *)
BestUpdate(fitness, layout, sorted) ==
  IF RLess(fitness, sorted[1].fitness)
  THEN [fitness |-> sorted[1].fitness, layout |-> sorted[1]]
  ELSE [fitness |-> fitness, layout |-> layout]

(* The tail of a generation: sort, replace, update the best, record, call
   back. Reading population[0] of an empty population panics. *)
EndGeneration ==
  /\ pc = "breed"
  /\ Len(new_population) >= config.population_size
  /\ \E sorted \in {sort_by_fitness(new_population)} :
        /\ population' = sorted
        /\ IF sorted = <<>>
           THEN /\ pc' = "panic"
                /\ UNCHANGED <<best_layout, best_fitness, fitness_history, callbacks, gen>>
           ELSE \E best \in {BestUpdate(best_fitness, best_layout, sorted)} :
                   /\ best_fitness' = best.fitness
                   /\ best_layout' = best.layout
                   /\ fitness_history' = PushHistory(fitness_history, best.fitness)
                   /\ callbacks' = Append(callbacks,
                        Callback(gen, best.fitness, best.layout, second_best(sorted)))
                   /\ gen' = gen + 1
                   /\ pc' = IF gen < config.generations THEN "elite" ELSE "final"
  /\ last' = [op |-> "end"]
  /\ UNCHANGED <<multi_vars, thread_vars, config, corpus, weights, baseline, hiragana_chars, rng,
                 new_population, result, entropy, first_run>>

(* GaResult *)
GaResult(layout, history, generations) ==
  [best_layout |-> layout, best_fitness |-> layout.fitness,
   fitness_history |-> history, final_generation |-> generations]

(* The terminal step reporting the re-evaluated layout to the observer. *)
FinishWithCallback ==
  /\ pc = "final"
  /\ \E final \in {Evaluate([best_layout EXCEPT !.layers = Repair(best_layout.layers)])} :
        /\ best_layout' = final
        /\ result' = Some(GaResult(final, fitness_history, config.generations))
        /\ callbacks' = Append(callbacks,
             Callback(config.generations + 1, final.fitness, final, second_best(population)))
  /\ last' = [op |-> "final", before |-> best_layout]
  /\ pc' = "done"
  /\ entropy' = entropy + 1
  /\ UNCHANGED <<multi_vars, thread_vars, config, corpus, weights, baseline, hiragana_chars, rng, population,
                 new_population, best_fitness, fitness_history, gen, first_run>>

(* The terminal step returning the best of the last generation instead of
   the best so far. *)
FinishFromPopulation ==
  /\ pc = "final"
  /\ \E final \in {Evaluate([population[1] EXCEPT !.layers = Repair(population[1].layers)])} :
        /\ best_layout' = final
        /\ result' = Some(GaResult(final, fitness_history, config.generations))
  /\ last' = [op |-> "final", before |-> best_layout]
  /\ pc' = "done"
  /\ entropy' = entropy + 1
  /\ UNCHANGED <<multi_vars, thread_vars, config, corpus, weights, baseline, hiragana_chars, rng, population,
                 new_population, best_fitness, fitness_history, gen, callbacks,
                 first_run>>

(* After the loop: the best layout repaired and evaluated once more, and
   the GaResult returned. *)
Finish ==
  /\ pc = "final"
  /\ \E final \in {Evaluate([best_layout EXCEPT !.layers = Repair(best_layout.layers)])} :
        /\ best_layout' = final
        /\ result' = Some(GaResult(final, fitness_history, config.generations))
  /\ last' = [op |-> "final", before |-> best_layout]
  /\ pc' = "done"
  /\ entropy' = entropy + 1
  /\ UNCHANGED <<multi_vars, thread_vars, config, corpus, weights, baseline, hiragana_chars, rng, population,
                 new_population, best_fitness, fitness_history, gen, callbacks,
                 first_run>>

(* A second GeneticAlgorithm built from the same corpus, weights and
   GaConfig once the first has returned; what the first reported is kept
   for comparison. *)
RunAgain ==
  /\ pc = "done"
  /\ first_run = None
  /\ first_run' = Some([callbacks |-> callbacks, result |-> result])
  /\ baseline' = None
  /\ hiragana_chars' = UniverseOf(corpus)
  /\ rng' = NewRng(config)
  /\ population' = <<>>
  /\ new_population' = <<>>
  /\ best_layout' = LayoutDefault
  /\ best_fitness' = <<0, 1>>
  /\ fitness_history' = <<>>
  /\ gen' = 0
  /\ pc' = "start"
  /\ callbacks' = <<>>
  /\ result' = None
  /\ last' = [op |-> "new"]
  /\ UNCHANGED <<multi_vars, thread_vars, config, corpus, weights, entropy>>

Next ==
  \/ InitialPopulation
  \/ ElitePreserve
  \/ Breed
  \/ EndGeneration
  \/ Finish
  \/ RunAgain

Spec == Init /\ [][Next]_vars

(* ------------------------------------------------------------------ *)
(* Layout::random_with_chars on its own                                *)
(* ------------------------------------------------------------------ *)
(* Two symbols outside HIRAGANA_FREQ_DEFAULT (wi, we), to make a universe
   longer than the free cells. *)
ExtraSymbols == <<<<12432>>, <<12433>>>>

(* Duplicate-free universes: shorter than, as long as and longer than the
   free cells. *)
Universes ==
  {SubSeq(HIRAGANA_FREQ_DEFAULT \o ExtraSymbols, 1, n) :
     n \in {0, 1, 2, total_positions - 1, total_positions,
            total_positions + 1, total_positions + 2}}

IdleConfig ==
  [population_size |-> 0, generations |-> 0, mutation_rate |-> <<1, 1>>,
   elite_count |-> 0, seed |-> 0]

(* The variables a single operation does not touch. *)
IdleEngine ==
  /\ config = IdleConfig
  /\ weights = NoWeights
  /\ baseline = None
  /\ population = <<>>
  /\ new_population = <<>>
  /\ best_fitness = <<0, 1>>
  /\ fitness_history = <<>>
  /\ gen = 0
  /\ pc = "start"
  /\ callbacks = <<>>
  /\ result = None
  /\ last = [op |-> "new"]
  /\ entropy = 0
  /\ first_run = None

InitRandom ==
  /\ IdleMulti
  /\ IdleThreads
  /\ IdleEngine
  /\ corpus = from_text(<<>>, <<>>)
  /\ best_layout = LayoutDefault
  /\ hiragana_chars \in Universes
  /\ rng \in 1..MaxRngState

RandomWithChars ==
  /\ pc = "start"
  /\ \E r \in {random_with_chars(rng, hiragana_chars)} :
        /\ best_layout' = r.layout
        /\ rng' = r.rng
        /\ last' = [op |-> "random", char_idx |-> r.char_idx, chars |-> r.chars]
  /\ pc' = "done"
  /\ UNCHANGED <<multi_vars, thread_vars, config, corpus, weights, baseline, hiragana_chars, population,
                 new_population, best_fitness, fitness_history, gen, callbacks,
                 result, entropy, first_run>>

NextRandom == RandomWithChars

SpecRandom == InitRandom /\ [][NextRandom]_vars

(* ------------------------------------------------------------------ *)
(* GeneticAlgorithm::mutate on its own                                 *)
(* ------------------------------------------------------------------ *)
(* The layouts mutate is given: the seeded baseline, and a random layout
   of the engine's universe after repair. *)
MutateInputs(cps) ==
  {improved_custom,
   MkLayout(repair_layout(cps, UniverseOf(cps),
                          random_with_chars(1, UniverseOf(cps)).layout.layers))}

InitMutate ==
  /\ IdleMulti
  /\ IdleThreads
  /\ IdleEngine
  /\ corpus \in Corpora
  /\ hiragana_chars = UniverseOf(corpus)
  /\ best_layout \in MutateInputs(corpus)
  /\ rng \in 1..MaxRngState

Mutate ==
  /\ pc = "start"
  /\ \E m \in {mutate(corpus, best_layout.layers, rng)} :
        /\ best_layout' = [best_layout EXCEPT !.layers = m.layers]
        /\ rng' = m.rng
        /\ last' = [op |-> "mutate", before |-> best_layout.layers,
                    idx1 |-> m.idx1, idx2 |-> m.idx2]
  /\ pc' = "done"
  /\ UNCHANGED <<multi_vars, thread_vars, config, corpus, weights, baseline, hiragana_chars, population,
                 new_population, best_fitness, fitness_history, gen, callbacks,
                 result, entropy, first_run>>

NextMutate == Mutate

SpecMutate == InitMutate /\ [][NextMutate]_vars


(* ------------------------------------------------------------------ *)
(* ga.rs: summarize_results                                            *)
(* ------------------------------------------------------------------ *)
INFINITY == <<1, 0>>
NEG_INFINITY == <<-1, 0>>

(* f64::min and f64::max of an accumulator and an element (no NaN) *)
f64_min(acc, x) == IF acc = INFINITY \/ RLess(x, acc) THEN x ELSE acc
f64_max(acc, x) == IF acc = NEG_INFINITY \/ RLess(acc, x) THEN x ELSE acc

RECURSIVE FoldMin(_)
FoldMin(fitnesses) ==
  IF fitnesses = <<>> THEN INFINITY
  ELSE f64_min(FoldMin(SubSeq(fitnesses, 1, Len(fitnesses) - 1)),
               fitnesses[Len(fitnesses)])

RECURSIVE FoldMax(_)
FoldMax(fitnesses) ==
  IF fitnesses = <<>> THEN NEG_INFINITY
  ELSE f64_max(FoldMax(SubSeq(fitnesses, 1, Len(fitnesses) - 1)),
               fitnesses[Len(fitnesses)])

(* The index left at 0: the unwrap_or(0) of an empty iterator taken for
   every list. *)
BestIdxDefault(results) == 1

(* Iterator::max_by over the enumerated results: the last of the equally
   greatest elements. *)
BestIdx(results) ==
  CHOOSE i \in DOMAIN results :
    /\ \A j \in DOMAIN results : ~RLess(results[i].best_fitness, results[j].best_fitness)
    /\ \A j \in DOMAIN results :
         j > i => RLess(results[j].best_fitness, results[i].best_fitness)

SquaredDeviations(fitnesses, mean) ==
  [i \in DOMAIN fitnesses |->
     fmul(fsub(fitnesses[i], mean), fsub(fitnesses[i], mean))]

(* summarize_results for a non-empty list. *)
summarize_results(results) ==
  LET fitnesses == [i \in DOMAIN results |-> results[i].best_fitness]
      n == RInt(Len(fitnesses))
      mean == fdiv(fsum(fitnesses), n)
      variance == fdiv(fsum(SquaredDeviations(fitnesses, mean)), n)
  IN [mean |-> mean,
      stddev |-> fsqrt(variance),
      min |-> FoldMin(fitnesses),
      max |-> FoldMax(fitnesses),
      best |-> results[BestIdx(results)]]

(* ------------------------------------------------------------------ *)
(* ga.rs: run_multi_with_storage, with the Ctrl+C handler and the      *)
(* report of main.rs::run_multi                                        *)
(* ------------------------------------------------------------------ *)
MaxRuns == 3

(* What ga.run() can return for the seed thread_rng drew: results of
   different fitness, and two of the same fitness with different layouts.
   The fitness values are floating-point numbers of MantissaBits bits. *)
RunFitnesses == {<<7, 4>>, <<11, 8>>, <<1, 1>>}

RunResults ==
  {GaResult([improved_custom EXCEPT !.fitness = f], <<f>>, 0) : f \in RunFitnesses}
  \cup {GaResult([LayoutDefault EXCEPT !.fitness = <<7, 4>>], <<<<7, 4>>>>, 0)}

StoragesBefore == {<<>>, <<GaResult(LayoutDefault, <<>>, 0)>>}

InitMulti ==
  /\ IdleEngine
  /\ IdleThreads
  /\ corpus = from_text(<<>>, <<>>)
  /\ best_layout = LayoutDefault
  /\ hiragana_chars = <<>>
  /\ rng = 1
  /\ \E num_runs \in 0..MaxRuns :
        job = [i \in 1..num_runs |-> [pc |-> "run", result |-> None, pushes |-> 0]]
  /\ mutex = None
  /\ completed_storage \in StoragesBefore
  /\ storage_before = completed_storage
  /\ multi_pc = "running"
  /\ returned = <<>>
  /\ summary = None

(* let result = ga.run(); *)
JobRun(i) ==
  /\ multi_pc = "running"
  /\ job[i].pc = "run"
  /\ \E r \in RunResults :
        job' = [job EXCEPT ![i] = [@ EXCEPT !.pc = "lock", !.result = Some(r)]]
  /\ UNCHANGED <<engine_vars, thread_vars, mutex, completed_storage, storage_before, multi_pc,
                 returned, summary>>

(* The closure going on to the push without taking the lock. *)
JobLockSkipped(i) ==
  /\ multi_pc = "running"
  /\ job[i].pc = "lock"
  /\ job' = [job EXCEPT ![i] = [@ EXCEPT !.pc = "push"]]
  /\ UNCHANGED <<engine_vars, thread_vars, mutex, completed_storage, storage_before, multi_pc,
                 returned, summary>>

(* completed_storage.lock().unwrap(): blocks while another thread holds
   the lock; no holder panics, so the lock is never poisoned. *)
JobLock(i) ==
  /\ multi_pc = "running"
  /\ job[i].pc = "lock"
  /\ mutex = None
  /\ mutex' = Some(i)
  /\ job' = [job EXCEPT ![i] = [@ EXCEPT !.pc = "push"]]
  /\ UNCHANGED <<engine_vars, thread_vars, completed_storage, storage_before, multi_pc, returned, summary>>

(* storage.push(result.clone()); *)
JobPush(i) ==
  /\ multi_pc = "running"
  /\ job[i].pc = "push"
  /\ completed_storage' = Append(completed_storage, job[i].result[1])
  /\ job' = [job EXCEPT ![i] = [@ EXCEPT !.pc = "unlock", !.pushes = @ + 1]]
  /\ UNCHANGED <<engine_vars, thread_vars, mutex, storage_before, multi_pc, returned, summary>>

(* The guard dropped at the end of the block; the closure returns result. *)
JobUnlock(i) ==
  /\ multi_pc = "running"
  /\ job[i].pc = "unlock"
  /\ mutex' = IF mutex = Some(i) THEN None ELSE mutex
  /\ job' = [job EXCEPT ![i] = [@ EXCEPT !.pc = "done"]]
  /\ UNCHANGED <<engine_vars, thread_vars, completed_storage, storage_before, multi_pc, returned, summary>>

(* collect(): the results of the closures in the order of the seeds. *)
Collect ==
  /\ multi_pc = "running"
  /\ \A i \in DOMAIN job : job[i].pc = "done"
  /\ returned' = [i \in DOMAIN job |-> job[i].result[1]]
  /\ multi_pc' = "returned"
  /\ UNCHANGED <<engine_vars, thread_vars, job, mutex, completed_storage, storage_before, summary>>

(* print_multi_results: summarize_results indexes results[0] of an empty
   list and panics. *)
Summarize ==
  /\ multi_pc = "returned"
  /\ IF returned = <<>>
     THEN multi_pc' = "panicked" /\ UNCHANGED summary
     ELSE /\ summary' = Some(summarize_results(returned))
          /\ multi_pc' = "summarized"
  /\ UNCHANGED <<engine_vars, thread_vars, job, mutex, completed_storage, storage_before, returned>>

(* The Ctrl+C handler: takes the lock, reads the storage and exits the
   process. *)
Interrupt ==
  /\ multi_pc = "running"
  /\ mutex = None
  /\ mutex' = Some(0)
  /\ multi_pc' = "exited"
  /\ UNCHANGED <<engine_vars, thread_vars, job, completed_storage, storage_before, returned, summary>>

NextMulti ==
  \/ \E i \in DOMAIN job : JobRun(i)
  \/ \E i \in DOMAIN job : JobLock(i)
  \/ \E i \in DOMAIN job : JobPush(i)
  \/ \E i \in DOMAIN job : JobUnlock(i)
  \/ Collect
  \/ Summarize
  \/ Interrupt

SpecMulti == InitMulti /\ [][NextMulti]_vars

(* ------------------------------------------------------------------ *)
(* Evaluator::evaluate called on given layouts                         *)
(* ------------------------------------------------------------------ *)
(* CorpusStats::new(): every map empty. *)
CorpusStats_new ==
  [char_freq |-> <<>>, bigram_freq |-> <<>>, trigram_freq |-> <<>>,
   fourgram_freq |-> <<>>, hiragana_by_freq |-> <<>>]

(* Texts of ka (left little finger), i (right ring finger) and n (right
   index finger), all unshifted in improved_custom, and a text of tsu
   (layer 1) and mo (layer 2). *)
EvalTexts ==
  {<<>>, <<12363>>, <<12363, 12356>>, <<12363, 12356, 12435, 12363, 12356>>,
   <<12388, 12418, 12388>>}

EvalCorpora ==
  {CorpusStats_new}
  \cup UNION {{from_text(text, order) : order \in HiraganaOrders(CountMap(text, 1))} :
                text \in EvalTexts \cup Texts}

(* The layout with no cell for the symbols that start with char c. *)
Without(layout, c) ==
  [layout EXCEPT !.layers =
     [l \in DOMAIN layout.layers |->
        [r \in DOMAIN layout.layers[l] |->
           [k \in DOMAIN layout.layers[l][r] |->
              LET s == layout.layers[l][r][k]
              IN IF Len(s) > 0 /\ s[1] = c THEN BLANK ELSE s]]]]

EvalLayouts ==
  {LayoutDefault, improved_custom, improved_custom_mistyped,
   Without(improved_custom, 12435), Without(improved_custom, 12418)}

(* Weights under which position_cost and the trigram metrics count. *)
PositionCostWeights ==
  [NoWeights EXCEPT !.same_finger = 1, !.position_cost = 1, !.shift_balance = 1]

TrigramWeights ==
  [NoWeights EXCEPT !.row_skip = 1, !.roll = 1, !.redirect_low = 1, !.inroll = 1,
                    !.arpeggio = 1]

EvalWeights == {KeystrokeWeights, AlternationWeights, PositionCostWeights, TrigramWeights}

(* How many layouts one evaluator is given. *)
MaxEvaluations == 2

InitEvaluate ==
  /\ IdleMulti
  /\ IdleThreads
  /\ config = IdleConfig
  /\ corpus \in EvalCorpora
  /\ weights \in EvalWeights
  /\ baseline = None
  /\ hiragana_chars = <<>>
  /\ rng = 1
  /\ population = <<>>
  /\ new_population = <<>>
  /\ best_layout = LayoutDefault
  /\ best_fitness = <<0, 1>>
  /\ fitness_history = <<>>
  /\ gen = 0
  /\ pc = "start"
  /\ callbacks = <<>>
  /\ result = None
  /\ last = [op |-> "new", evaluations |-> <<>>]
  /\ entropy = 0
  /\ first_run = None

(* evaluator.evaluate(&mut layout): the scores of compute_scores, the
   fitness of compute_fitness written to layout.fitness. The index the
   scores were read through and the sums of the loops are recorded with
   them. *)
Evaluation(layout) ==
  Bind(build_char_map(layout.layers), LAMBDA char_map :
    Bind(compute_scores(corpus, layout.layers), LAMBDA scores :
      [layout |-> [layout EXCEPT !.fitness = compute_fitness(scores, weights)],
       before |-> layout,
       char_map |-> char_map,
       sums |-> ScoreSums(corpus, char_map) @@ TrigramSums(corpus, char_map),
       scores |-> scores]))

EvaluateLayout ==
  /\ Len(last.evaluations) < MaxEvaluations
  /\ \E layout \in EvalLayouts :
       /\ \A i \in DOMAIN last.evaluations : last.evaluations[i].before # layout
       /\ \E e \in {Evaluation(layout)} :
            /\ last' = [op |-> "evaluate", evaluations |-> Append(last.evaluations, e)]
            /\ best_layout' = e.layout
  /\ UNCHANGED <<multi_vars, thread_vars, config, corpus, weights, baseline, hiragana_chars, rng,
                 population, new_population, best_fitness, fitness_history, gen, pc,
                 callbacks, result, entropy, first_run>>

NextEvaluate == EvaluateLayout

SpecEvaluate == InitEvaluate /\ [][NextEvaluate]_vars

(* ------------------------------------------------------------------ *)
(* Layout::validate called on given layouts                            *)
(* ------------------------------------------------------------------ *)
(* A free cell of layer 0, a free cell of layer 3, a fixed cell and a
   blank position. *)
EditedCells == {<<0, 0, 0>>, <<3, 2, 8>>, <<0, 2, 7>>, <<3, 2, 9>>}

(* The blank token, the empty string, i and ka (held by improved_custom),
   the digraph shi-yo (held too) and the katakana a (expected by no list). *)
EditSymbols == {BLANK, EMPTY, <<12356>>, <<12363>>, <<12375, 12423>>, <<12450>>}

(* improved_custom with one cell overwritten, and the blank layout. *)
ValidateLayouts ==
  {MkLayout(Put(improved_custom.layers, p, s)) : p \in EditedCells, s \in EditSymbols}
  \cup {LayoutDefault}

(* expected_chars: the default symbols, none, the first three, the default
   symbols with a fixed symbol, and a list that repeats a symbol. *)
ExpectedLists ==
  {HIRAGANA_FREQ_DEFAULT, <<>>, SubSeq(HIRAGANA_FREQ_DEFAULT, 1, 3),
   Append(HIRAGANA_FREQ_DEFAULT, SYM_COMMA), <<<<12356>>, <<12356>>, <<12450>>>>}

InitValidate ==
  /\ IdleMulti
  /\ IdleThreads
  /\ IdleEngine
  /\ corpus = from_text(<<>>, <<>>)
  /\ rng = 1
  /\ best_layout \in ValidateLayouts
  /\ hiragana_chars \in ExpectedLists

(* let v = layout.validate(&expected_chars); v.is_valid() *)
ValidateLayout ==
  /\ last.op = "new"
  /\ \E v \in {validate(best_layout.layers, hiragana_chars)} :
       last' = [op |-> "validate", before |-> best_layout, result |-> v,
                is_valid |-> is_valid(v)]
  /\ UNCHANGED <<multi_vars, thread_vars, config, corpus, weights, baseline, hiragana_chars, rng,
                 population, new_population, best_layout, best_fitness, fitness_history,
                 gen, pc, callbacks, result, entropy, first_run>>

NextValidate == ValidateLayout

SpecValidate == InitValidate /\ [][NextValidate]_vars

(* ------------------------------------------------------------------ *)
(* CorpusStats::from_text called on given texts                        *)
(* ------------------------------------------------------------------ *)
MaxTextLen == 3

(* a, i, the full-width semicolon and the middle dot *)
TextChars == {12354, 12356, 65307, 12539}

(* The texts of up to MaxTextLen chars, and "a i u e o" of the unit test. *)
CorpusTexts ==
  UNION {[1..n -> TextChars] : n \in 0..MaxTextLen}
  \cup {<<12354, 12356, 12358, 12360, 12362>>}

InitCorpus ==
  /\ IdleMulti
  /\ IdleThreads
  /\ config = IdleConfig
  /\ corpus = CorpusStats_new
  /\ weights = NoWeights
  /\ baseline = None
  /\ hiragana_chars = <<>>
  /\ rng = 1
  /\ population = <<>>
  /\ new_population = <<>>
  /\ best_layout = LayoutDefault
  /\ best_fitness = <<0, 1>>
  /\ fitness_history = <<>>
  /\ gen = 0
  /\ pc = "start"
  /\ callbacks = <<>>
  /\ result = None
  /\ \E text \in CorpusTexts : last = [op |-> "new", text |-> text]
  /\ entropy = 0
  /\ first_run = None

(* let stats = CorpusStats::from_text(text); *)
FromText ==
  /\ last.op = "new"
  /\ \E order \in HiraganaOrders(CountMap(last.text, 1)) :
       corpus' = from_text(last.text, order)
  /\ last' = [last EXCEPT !.op = "from_text"]
  /\ UNCHANGED <<multi_vars, thread_vars, config, weights, baseline, hiragana_chars, rng,
                 population, new_population, best_layout, best_fitness, fitness_history,
                 gen, pc, callbacks, result, entropy, first_run>>

NextCorpus == FromText

SpecCorpus == InitCorpus /\ [][NextCorpus]_vars

(* ------------------------------------------------------------------ *)
(* GeneticAlgorithm::crossover and repair_layout on their own          *)
(* ------------------------------------------------------------------ *)
(* A text whose kana occur three times (a i u shi), twice (e ... ko, small
   ya) or once, in which the digraph sha occurs twice; its kana by
   descending count. *)
VariedText ==
  LongText \o SubSeq(LongText, 1, 10) \o SubSeq(LongText, 1, 3)
    \o <<12375, 12419, 12375, 12419>>

VariedOrder ==
  SubSeq(LongText, 1, 3) \o <<12375>> \o SubSeq(LongText, 4, 10) \o <<12419>>
    \o SubSeq(LongText, 11, 11) \o SubSeq(LongText, 13, 30)

VariedCorpus == from_text(VariedText, VariedOrder)

CrossCorpora == {LongCorpus, VariedCorpus}

(* The parents crossover is given: members of a population, which are the
   seeded baseline and random layouts after repair. *)
MaxParentSeed == 2

CrossParents(cps) ==
  {improved_custom}
  \cup {MkLayout(repair_layout(cps, UniverseOf(cps),
                               random_with_chars(s, UniverseOf(cps)).layout.layers)) :
          s \in 1..MaxParentSeed}

MaxCrossSeed == 6

InitCrossover ==
  /\ IdleMulti
  /\ IdleThreads
  /\ config = IdleConfig
  /\ weights = NoWeights
  /\ baseline = None
  /\ new_population = <<>>
  /\ best_fitness = <<0, 1>>
  /\ fitness_history = <<>>
  /\ gen = 0
  /\ pc = "start"
  /\ callbacks = <<>>
  /\ result = None
  /\ last = [op |-> "new"]
  /\ entropy = 0
  /\ first_run = None
  /\ corpus \in CrossCorpora
  /\ hiragana_chars = UniverseOf(corpus)
  /\ \E parent1, parent2 \in CrossParents(corpus) : population = <<parent1, parent2>>
  /\ best_layout = LayoutDefault
  /\ rng \in 1..MaxCrossSeed

(* let mut child = self.crossover(&parent1, &parent2) *)
Crossover ==
  /\ pc = "start"
  /\ \E c \in {crossover(corpus, hiragana_chars, population[1], population[2], rng)} :
        /\ best_layout' = c.layout
        /\ rng' = c.rng
        /\ last' = [op |-> "crossover", raw |-> c.raw, child |-> c.layout.layers]
  /\ pc' = "crossed"
  /\ UNCHANGED <<multi_vars, thread_vars, config, corpus, weights, baseline, hiragana_chars, population,
                 new_population, best_fitness, fitness_history, gen, callbacks,
                 result, entropy, first_run>>

(* self.repair_layout(&mut best_layout) on a layout that crossover returned *)
RepairAgain ==
  /\ pc = "crossed"
  /\ best_layout' = MkLayout(repair_layout(corpus, hiragana_chars, best_layout.layers))
  /\ last' = [op |-> "repair", before |-> best_layout.layers]
  /\ pc' = "done"
  /\ UNCHANGED <<multi_vars, thread_vars, config, corpus, weights, baseline, hiragana_chars, population,
                 new_population, best_fitness, fitness_history, gen, callbacks,
                 result, entropy, first_run, rng>>

NextCrossover == Crossover \/ RepairAgain

SpecCrossover == InitCrossover /\ [][NextCrossover]_vars

(* ------------------------------------------------------------------ *)
(* main.rs run_single: the callback of the run and the Ctrl+C handler  *)
(* ------------------------------------------------------------------ *)
(* The callbacks of a run are those of generations 0..MaxSingleGen, and
   the fitness passed is one of 0..MaxFitnessArg, never below the one
   passed before (C2). *)
MaxSingleGen == 2
MaxFitnessArg == 1

(* The closure that takes the fitness mutex first. *)
CallbackLocksReversed == <<"best_fitness", "best_layout">>

(* The order of the two lock() calls of the callback closure. *)
CallbackLocks == <<"best_layout", "best_fitness">>

(* Arc::new(Mutex::new(None)), Arc::new(Mutex::new(0.0)), the handler set
   and run_with_callback entered. `by` is the generation of the callback
   invocation that wrote the value. *)
StartSingle ==
  [best_layout |-> None,
   best_fitness |-> [value |-> 0, by |-> None],
   mutex |-> [best_layout |-> None, best_fitness |-> None],
   main |-> "run", gen |-> 0, arg |-> None,
   handler |-> "armed", seen |-> [layout |-> None, fitness |-> None],
   exit |-> None]

InitSingle ==
  /\ IdleMulti
  /\ IdleEngine
  /\ corpus = CorpusStats_new
  /\ hiragana_chars = <<>>
  /\ best_layout = LayoutDefault
  /\ rng = 1
  /\ tui = IdleTui
  /\ single = StartSingle

Alive == single.exit = None

SingleStep(next) ==
  /\ Alive
  /\ single' = next
  /\ UNCHANGED <<engine_vars, multi_vars, tui>>

(* run_with_callback calls the closure with the best-ever fitness. *)
CallbackEnter ==
  /\ single.main = "run"
  /\ single.gen <= MaxSingleGen
  /\ \E fitness \in 0..MaxFitnessArg :
        /\ single.arg # None => fitness >= single.arg[1]
        /\ SingleStep([single EXCEPT !.main = "lock_first", !.arg = Some(fitness)])

(* let mut best = ..lock().unwrap(); let mut best_fit = ..lock().unwrap(); *)
CallbackLockFirst ==
  /\ single.main = "lock_first"
  /\ single.mutex[CallbackLocks[1]] = None
  /\ SingleStep([single EXCEPT !.mutex[CallbackLocks[1]] = Some("main"),
                               !.main = "lock_second"])

CallbackLockSecond ==
  /\ single.main = "lock_second"
  /\ single.mutex[CallbackLocks[2]] = None
  /\ SingleStep([single EXCEPT !.mutex[CallbackLocks[2]] = Some("main"),
                               !.main = "test"])

(* if fitness > *best_fit || best.is_none() *)
CallbackTest ==
  /\ single.main = "test"
  /\ SingleStep([single EXCEPT !.main =
       IF single.arg[1] > single.best_fitness.value \/ single.best_layout = None
       THEN "write_layout" ELSE "unlock"])

(* *best = Some(layout.clone()) *)
CallbackWriteLayout ==
  /\ single.main = "write_layout"
  /\ SingleStep([single EXCEPT !.best_layout = Some(single.gen), !.main = "write_fitness"])

(* *best_fit = fitness *)
CallbackWriteFitness ==
  /\ single.main = "write_fitness"
  /\ SingleStep([single EXCEPT !.best_fitness = [value |-> single.arg[1],
                                                 by |-> Some(single.gen)],
                               !.main = "unlock"])

(* The end of the closure: the guards are dropped, the later one first. *)
CallbackUnlock ==
  /\ single.main = "unlock"
  /\ SingleStep([single EXCEPT !.mutex[CallbackLocks[2]] = None, !.main = "unlock_first"])

CallbackReturn ==
  /\ single.main = "unlock_first"
  /\ SingleStep([single EXCEPT !.mutex[CallbackLocks[1]] = None, !.main = "run",
                               !.gen = single.gen + 1])

(* run_with_callback returns; run_single prints, saves and returns. *)
RunReturns ==
  /\ single.main = "run"
  /\ single.gen > MaxSingleGen
  /\ SingleStep([single EXCEPT !.main = "returned", !.exit = Some(0)])

(* Ctrl+C: the handler thread starts the closure given to set_handler. *)
Signal ==
  /\ single.handler = "armed"
  /\ SingleStep([single EXCEPT !.handler = "lock_layout"])

(* let layout_opt = best_layout_for_signal.lock().unwrap() *)
HandlerLockLayout ==
  /\ single.handler = "lock_layout"
  /\ single.mutex.best_layout = None
  /\ SingleStep([single EXCEPT !.mutex.best_layout = Some("handler"), !.handler = "match"])

(* if let Some(ref layout) = *layout_opt { .. } else { .. exit(1) } *)
HandlerMatch ==
  /\ single.handler = "match"
  /\ SingleStep(IF single.best_layout # None
                THEN [single EXCEPT !.seen.layout = single.best_layout,
                                    !.handler = "lock_fitness"]
                ELSE [single EXCEPT !.handler = "exited", !.exit = Some(1)])

(* let fitness = *best_fitness_for_signal.lock().unwrap(): the guard is a
   temporary, dropped at the end of the statement. *)
HandlerLockFitness ==
  /\ single.handler = "lock_fitness"
  /\ single.mutex.best_fitness = None
  /\ SingleStep([single EXCEPT !.mutex.best_fitness = Some("handler"),
                               !.handler = "read_fitness"])

HandlerReadFitness ==
  /\ single.handler = "read_fitness"
  /\ SingleStep([single EXCEPT !.seen.fitness = Some(single.best_fitness),
                               !.mutex.best_fitness = None, !.handler = "save"])

(* save_layout(layout, ..); std::process::exit(0) *)
HandlerSave ==
  /\ single.handler = "save"
  /\ SingleStep([single EXCEPT !.handler = "exited", !.exit = Some(0)])

NextSingle ==
  \/ CallbackEnter \/ CallbackLockFirst \/ CallbackLockSecond \/ CallbackTest
  \/ CallbackWriteLayout \/ CallbackWriteFitness \/ CallbackUnlock \/ CallbackReturn
  \/ RunReturns
  \/ Signal \/ HandlerLockLayout \/ HandlerMatch \/ HandlerLockFitness
  \/ HandlerReadFitness \/ HandlerSave

SpecSingle == InitSingle /\ [][NextSingle]_vars

(* ------------------------------------------------------------------ *)
(* tui.rs run_tui_thread with main.rs run_with_tui and                 *)
(* run_multi_with_tui: the state mutex and TuiState.running            *)
(* ------------------------------------------------------------------ *)
(* The callbacks of the run (of all runs of a multi-run) are numbered
   0..MaxTuiGen. *)
MaxTuiGen == 1

(* What poll_event returns: a key it maps (q and Esc to 'q'), None for no
   key or any other key, or an error. *)
PollEvents == {"none", "q", "i", "1", "2", "3", "err"}

(* A loop that goes on whatever the flag says. *)
LoopNeverLeft(running) == FALSE

(* if !state.running { break; } *)
LoopLeft(running) == ~running

(* TuiState::new has running = true; set_weights is done, the handler is
   set and the TUI thread is spawned. In run_multi_with_tui the handler
   locks completed_results, not the state. *)
StartTui(mode) ==
  [mode |-> mode, running |-> TRUE, mutex |-> None,
   thread |-> "new", key |-> "none",
   main |-> "run", gen |-> 0,
   handler |-> "armed", exit |-> FALSE]

InitTui ==
  /\ IdleMulti
  /\ IdleEngine
  /\ corpus = CorpusStats_new
  /\ hiragana_chars = <<>>
  /\ best_layout = LayoutDefault
  /\ rng = 1
  /\ single = IdleSingle
  /\ \E mode \in {"single", "multi"} : tui = StartTui(mode)

TuiStep(next) ==
  /\ ~tui.exit
  /\ tui' = next
  /\ UNCHANGED <<engine_vars, multi_vars, single>>

(* TuiApp::new(): on an error the thread returns at once. *)
TuiNew ==
  /\ tui.thread = "new"
  /\ \E ok \in BOOLEAN :
        TuiStep([tui EXCEPT !.thread = IF ok THEN "lock_check" ELSE "terminated"])

(* The head of the loop: let state = state.lock().unwrap() *)
TuiLockCheck ==
  /\ tui.thread = "lock_check"
  /\ tui.mutex = None
  /\ TuiStep([tui EXCEPT !.mutex = Some("tui"), !.thread = "check"])

(* The flag is tested and the frame drawn under the lock; the guard is
   dropped at the end of the block, also by a break. *)
TuiCheck ==
  /\ tui.thread = "check"
  /\ \E drawn \in BOOLEAN :
        TuiStep([tui EXCEPT !.mutex = None,
                            !.thread = IF LoopLeft(tui.running) \/ ~drawn
                                       THEN "cleanup" ELSE "poll"])

(* match app.poll_event() *)
TuiPoll ==
  /\ tui.thread = "poll"
  /\ \E event \in PollEvents :
        TuiStep([tui EXCEPT !.key = event,
                            !.thread = CASE event = "none" -> "lock_sleep"
                                         [] event = "err" -> "cleanup"
                                         [] OTHER -> "lock_key"])

(* The arms of a key: let mut state = state.lock().unwrap() *)
TuiLockKey ==
  /\ tui.thread = "lock_key"
  /\ tui.mutex = None
  /\ TuiStep([tui EXCEPT !.mutex = Some("tui"), !.thread = "key"])

(* 'q': state.running = false; break. The other keys change the view. *)
TuiKey ==
  /\ tui.thread = "key"
  /\ TuiStep(IF tui.key = "q"
             THEN [tui EXCEPT !.running = FALSE, !.mutex = None, !.thread = "cleanup"]
             ELSE [tui EXCEPT !.mutex = None, !.thread = "lock_sleep"])

(* let state_for_sleep = state.lock().unwrap(); ..; drop(state_for_sleep) *)
TuiLockSleep ==
  /\ tui.thread = "lock_sleep"
  /\ tui.mutex = None
  /\ TuiStep([tui EXCEPT !.mutex = Some("tui"), !.thread = "sleep_ms"])

TuiSleep ==
  /\ tui.thread = "sleep_ms"
  /\ TuiStep([tui EXCEPT !.mutex = None, !.thread = "lock_check"])

(* app.cleanup(), and the closure of the thread ends. *)
TuiCleanup ==
  /\ tui.thread = "cleanup"
  /\ TuiStep([tui EXCEPT !.thread = "terminated"])

TuiThreadStep ==
  \/ TuiNew \/ TuiLockCheck \/ TuiCheck \/ TuiPoll \/ TuiLockKey \/ TuiKey
  \/ TuiLockSleep \/ TuiSleep \/ TuiCleanup

(* The callback of the run: let mut s = state.lock().unwrap();
   if !s.running { return; } s.update(..) *)
TuiCallbackEnter ==
  /\ tui.main = "run"
  /\ tui.gen <= MaxTuiGen
  /\ TuiStep([tui EXCEPT !.main = "lock_callback"])

TuiCallbackLock ==
  /\ tui.main = "lock_callback"
  /\ tui.mutex = None
  /\ TuiStep([tui EXCEPT !.mutex = Some("main"), !.main = "callback"])

TuiCallbackReturn ==
  /\ tui.main = "callback"
  /\ TuiStep([tui EXCEPT !.mutex = None, !.main = "run", !.gen = tui.gen + 1])

(* After the run: { let mut s = state.lock().unwrap(); s.running = false; } *)
MainLockStop ==
  /\ tui.main = "run"
  /\ tui.gen > MaxTuiGen
  /\ tui.mutex = None
  /\ TuiStep([tui EXCEPT !.mutex = Some("main"), !.main = "stop"])

MainStop ==
  /\ tui.main = "stop"
  /\ TuiStep([tui EXCEPT !.running = FALSE, !.mutex = None, !.main = "join"])

(* let _ = tui_handle.join() *)
MainJoin ==
  /\ tui.main = "join"
  /\ tui.thread = "terminated"
  /\ TuiStep([tui EXCEPT !.main = "joined"])

(* run_with_tui: let s = state.lock().unwrap(), held to the end of the
   function. run_multi_with_tui goes on without the state. *)
MainLockFinal ==
  /\ tui.main = "joined"
  /\ tui.mode = "multi" \/ tui.mutex = None
  /\ TuiStep([tui EXCEPT !.mutex = IF tui.mode = "single" THEN Some("main") ELSE tui.mutex,
                         !.main = "report"])

MainReturn ==
  /\ tui.main = "report"
  /\ TuiStep([tui EXCEPT !.mutex = IF tui.mode = "single" THEN None ELSE tui.mutex,
                         !.main = "returned", !.exit = TRUE])

MainThreadStep ==
  \/ TuiCallbackEnter \/ TuiCallbackLock \/ TuiCallbackReturn
  \/ MainLockStop \/ MainStop \/ MainJoin \/ MainLockFinal \/ MainReturn

(* Ctrl+C *)
TuiSignal ==
  /\ tui.handler = "armed"
  /\ TuiStep([tui EXCEPT !.handler = "lock"])

(* run_with_tui: let s = state_for_signal.lock().unwrap(), then
   std::process::exit in either branch, the guard alive. The handler of
   run_multi_with_tui exits without the state mutex. *)
TuiHandlerLock ==
  /\ tui.handler = "lock"
  /\ tui.mode = "multi" \/ tui.mutex = None
  /\ TuiStep([tui EXCEPT !.mutex = IF tui.mode = "single" THEN Some("handler") ELSE tui.mutex,
                         !.handler = "exit"])

TuiHandlerExit ==
  /\ tui.handler = "exit"
  /\ TuiStep([tui EXCEPT !.handler = "exited", !.exit = TRUE])

TuiHandlerStep == TuiHandlerLock \/ TuiHandlerExit

NextTui == TuiThreadStep \/ MainThreadStep \/ TuiSignal \/ TuiHandlerStep

SpecTui == InitTui /\ [][NextTui]_vars

(* Every thread that can take a step is scheduled; a signal need not come. *)
SpecTuiFair ==
  /\ SpecTui
  /\ WF_vars(TuiThreadStep)
  /\ WF_vars(MainThreadStep)
  /\ WF_vars(TuiHandlerStep)

(* ------------------------------------------------------------------ *)
(* Properties                                                          *)
(* ------------------------------------------------------------------ *)
Universe == {hiragana_chars[i] : i \in DOMAIN hiragana_chars}

FreeSymbols(layers) == {At(layers, FreeCells[k]) : k \in DOMAIN FreeCells}

(* No symbol is held by two free cells. *)
NoSymbolTwice(layers) == Cardinality(FreeSymbols(layers)) = Len(FreeCells)

(* The hardcoded table of the fixed cells. *)
HardcodedSymbols ==
  {<<<<0, 1, 2>>, SYM_STAR_BLACK>>, <<<<0, 1, 7>>, SYM_STAR_WHITE>>,
   <<<<0, 2, 9>>, SYM_DIAMOND>>, <<<<0, 2, 7>>, SYM_COMMA>>,
   <<<<0, 2, 8>>, SYM_PERIOD>>, <<<<0, 1, 10>>, SYM_LONG>>,
   <<<<1, 1, 10>>, SYM_MIDDOT>>, <<<<3, 1, 10>>, SYM_SEMICOLON>>}

FixedCellsHold(layers) == \A f \in HardcodedSymbols : At(layers, f[1]) = f[2]

BlankCells == {<<2, 1, 10>>, <<3, 0, 9>>, <<3, 1, 9>>, <<3, 2, 9>>}

BlankCellsHold(layers) == \A p \in BlankCells : At(layers, p) = BLANK

StructurallyValid(layers) ==
  /\ FreeSymbols(layers) \subseteq Universe
  /\ NoSymbolTwice(layers)
  /\ FixedCellsHold(layers)
  /\ BlankCellsHold(layers)

(* C1: in every generation, the initial population included, every member
   of the population holds a symbol of the universe in each free cell, no
   symbol in two free cells, the hardcoded symbol in each fixed cell and
   the blank token at each blank position. *)
C1_StructuralValidity ==
  \A i \in DOMAIN population : StructurallyValid(population[i].layers)

NonDecreasing(seq) ==
  \A i \in DOMAIN seq : \A j \in DOMAIN seq : i < j => ~RLess(seq[j], seq[i])

CallbackFitnesses == [i \in DOMAIN callbacks |-> callbacks[i].best_fitness]

(* C2: the best-ever fitness values passed to the callback and those
   recorded in fitness_history never decrease from one generation to the
   next, whatever the configuration, elite_count = 0 included. *)
C2_BestFitnessNonDecreasing ==
  /\ NonDecreasing(CallbackFitnesses)
  /\ NonDecreasing(fitness_history)

(* A run without elites whose last generation is worse than the best so
   far, after the history took its value. *)
C2_Witness ==
  /\ config.elite_count = 0
  /\ pc \in {"elite", "final"}
  /\ Len(fitness_history) >= 2
  /\ population # <<>>
  /\ RLess(population[1].fitness, best_fitness)

(* C3: two engines built from the same corpus, weights and GaConfig report
   the same sequence of callback arguments and return the same
   fitness_history and the same best_layout. *)
C3_Deterministic ==
  (pc = "done" /\ first_run # None) =>
     /\ first_run[1].callbacks = callbacks
     /\ first_run[1].result = result

(* A second run that has bred and mutated children has returned. *)
C3_Witness ==
  /\ pc = "done"
  /\ first_run # None
  /\ config.generations >= 2
  /\ config.population_size >= 2
  /\ first_run[1].result = result

GenerationsInOrder(n) ==
  /\ Len(callbacks) >= n
  /\ \A i \in 1..n : callbacks[i].generation = i - 1

(* C4: a run of G generations calls the observer exactly once for each
   generation 0, 1, ..., G in increasing order and not again: the final
   repair and re-evaluation is not reported. *)
C4_OneCallbackPerGeneration ==
  /\ pc \in {"elite", "breed"} => Len(callbacks) = gen /\ GenerationsInOrder(gen)
  /\ pc \in {"final", "done"} =>
        /\ Len(callbacks) = config.generations + 1
        /\ GenerationsInOrder(config.generations + 1)

(* C4 as stated: one more call after the final repair and re-evaluation. *)
C4_CallbackAfterFinalRepair ==
  pc = "done" =>
     /\ Len(callbacks) = config.generations + 2
     /\ GenerationsInOrder(config.generations + 1)

(* A run of at least one generation has returned. *)
C4_Witness ==
  /\ pc = "done"
  /\ config.generations >= 1
  /\ Len(callbacks) = config.generations + 1

(* C5: fitness_history holds one entry per generation in order, entry g
   being the best-ever fitness passed to the callback at generation g, and
   final_generation is the configured generation count. *)
C5_HistoryMatchesCallbacks ==
  /\ Len(fitness_history) = Len(callbacks)
  /\ \A i \in DOMAIN callbacks :
        /\ callbacks[i].generation = i - 1
        /\ fitness_history[i] = callbacks[i].best_fitness
  /\ pc = "done" =>
        /\ result[1].fitness_history = fitness_history
        /\ Len(result[1].fitness_history) = config.generations + 1
        /\ result[1].final_generation = config.generations

(* A returned history of three generations whose best improved. *)
C5_Witness ==
  /\ pc = "done"
  /\ Len(result[1].fitness_history) >= 3
  /\ RLess(result[1].fitness_history[1],
           result[1].fitness_history[Len(result[1].fitness_history)])

(* C6: the returned best_layout is the best-ever layout of the last
   generation; the terminal repair changes none of its cells and the
   returned best_fitness is the last entry of fitness_history. *)
C6_TerminalRevalidation ==
  pc = "done" =>
     /\ result[1].best_layout.layers = callbacks[Len(callbacks)].best_layout.layers
     /\ result[1].best_layout.layers = last.before.layers
     /\ result[1].best_fitness = fitness_history[Len(fitness_history)]

(* A returned best layout that came out of breeding. *)
C6_Witness ==
  /\ pc = "done"
  /\ config.generations >= 1
  /\ result[1].best_layout.layers # improved_custom.layers
  /\ result[1].best_layout.layers = last.before.layers

(* C7: when no other free cell is within both tolerances of the first
   pick, mutate leaves every cell unchanged. *)
C7_NoCandidateNoChange ==
  (/\ last.op = "mutate"
   /\ last.idx1 > 0
   /\ MutateCandidates(corpus, last.before, last.idx1) = <<>>)
  => best_layout.layers = last.before

(* mutate picked a first cell without a partner. *)
C7_Witness ==
  /\ last.op = "mutate"
  /\ last.idx1 > 0
  /\ MutateCandidates(corpus, last.before, last.idx1) = <<>>
  /\ best_layout.layers = last.before

(* C8: the child of two parents that hold the hardcoded symbols at the
   fixed cells holds them too, the blank token at the blank positions, and
   no symbol in more than one free cell. *)
C8_CrossoverChildValid ==
  (/\ last.op = "breed"
   /\ FixedCellsHold(last.parent1.layers)
   /\ FixedCellsHold(last.parent2.layers))
  => /\ FixedCellsHold(last.crossed)
     /\ BlankCellsHold(last.crossed)
     /\ NoSymbolTwice(last.crossed)

(* The universe padded with blank tokens or cut to the free cells. *)
Prepared(chars) ==
  IF Len(chars) >= Len(FreeCells)
  THEN SubSeq(chars, 1, Len(FreeCells))
  ELSE chars \o [k \in 1..(Len(FreeCells) - Len(chars)) |-> BLANK]

Occurrences(seq, s) == Cardinality({k \in DOMAIN seq : seq[k] = s})

SameBag(a, b) ==
  /\ Len(a) = Len(b)
  /\ \A k \in DOMAIN a : Occurrences(a, a[k]) = Occurrences(b, a[k])

FreeContents(layers) == [k \in DOMAIN FreeCells |-> At(layers, FreeCells[k])]

(* C9: random_with_chars fills the free cells with a permutation of the
   universe padded with blank tokens or truncated to their number, writes
   the fixed symbols, leaves the blank positions blank, places as many
   symbols as it prepared, and places no symbol other than the blank token
   twice. *)
C9_RandomFillsFreeCells ==
  last.op = "random" =>
     /\ SameBag(FreeContents(best_layout.layers), Prepared(hiragana_chars))
     /\ FixedCellsHold(best_layout.layers)
     /\ BlankCellsHold(best_layout.layers)
     /\ last.char_idx = Len(last.chars)
     /\ last.char_idx = Len(FreeCells)
     /\ \A k \in DOMAIN FreeCells :
          At(best_layout.layers, FreeCells[k]) # BLANK =>
            Occurrences(FreeContents(best_layout.layers),
                        At(best_layout.layers, FreeCells[k])) = 1

(* A universe shorter than the free cells has been placed, out of order. *)
C9_Witness ==
  /\ last.op = "random"
  /\ Len(hiragana_chars) = Len(FreeCells) - 1
  /\ Occurrences(FreeContents(best_layout.layers), BLANK) = 1
  /\ FreeContents(best_layout.layers) # Prepared(hiragana_chars)

(* C10: improved_custom validated against HIRAGANA_FREQ_DEFAULT has no
   duplicate, no missing and no extra symbol: 112 free cells with the 112
   default symbols, 8 fixed cells with the fixed symbols, 4 blank
   positions with the blank token, 124 cells in all; the engine's repair
   of the seeded baseline therefore changes none of its cells. *)
C10_ImprovedCustomValid ==
  LET v == validate(improved_custom.layers, HIRAGANA_FREQ_DEFAULT)
  IN /\ v.duplicates = {} /\ v.missing = {} /\ v.extra = {}
     /\ is_valid(v)
     /\ v.total_found = 112 /\ v.total_expected = 112
     /\ Len(FreeCells) = 112
     /\ NoSymbolTwice(improved_custom.layers)
     /\ FixedCellsHold(improved_custom.layers)
     /\ BlankCellsHold(improved_custom.layers)
     /\ Cardinality(HardcodedSymbols) = 8
     /\ Cardinality(BlankCells) = 4
     /\ Len(Cells) = 112 + 8 + 4
     /\ last.op = "init" => last.custom.layers = improved_custom.layers

(* The seeded baseline entered the initial population. *)
C10_Witness ==
  /\ last.op = "init"
  /\ last.custom.layers = improved_custom.layers
  /\ is_valid(validate(last.custom.layers, HIRAGANA_FREQ_DEFAULT))

(* ------------------------------------------------------------------ *)
(* The multi-run                                                       *)
(* ------------------------------------------------------------------ *)
(* The entries appended since the call, in the order they were appended. *)
Appended == SubSeq(completed_storage, Len(storage_before) + 1, Len(completed_storage))

(* A change of the storage is one push by the closure that holds the lock. *)
AppendByHolder ==
  completed_storage' # completed_storage =>
    \E i \in DOMAIN job :
       /\ mutex = Some(i)
       /\ mutex' = mutex
       /\ job[i].pushes = 0
       /\ completed_storage' = Append(completed_storage, job[i].result[1])

(* A step of a closure leaves the other closures, the engine and what the
   caller holds as they were. *)
ClosureStepIsLocal ==
  \A i \in DOMAIN job :
     job'[i] # job[i] =>
       /\ \A k \in DOMAIN job : k # i => job'[k] = job[k]
       /\ UNCHANGED <<engine_vars, thread_vars, storage_before, multi_pc, returned, summary>>
       /\ mutex' # mutex => (mutex = None /\ mutex' = Some(i)) \/ (mutex = Some(i) /\ mutex' = None)

OnReturn ==
  multi_pc \in {"returned", "summarized", "panicked"} =>
    /\ Len(returned) = Len(job)
    /\ \A i \in DOMAIN job : job[i].pushes = 1
    /\ Len(completed_storage) = Len(storage_before) + Len(job)
    /\ SubSeq(completed_storage, 1, Len(storage_before)) = storage_before
    /\ SameBag(Appended, returned)
    /\ mutex = None

(* C12: under every interleaving of the parallel runs each run appends its
   result to the shared storage exactly once, while it holds the mutex, and
   changes no other shared state; when run_multi_with_storage returns, the
   storage has grown by exactly num_runs entries, which are the results of
   the returned list in some order. *)
C12_MultiRunCollection ==
  /\ []OnReturn
  /\ [][AppendByHolder /\ ClosureStepIsLocal]_vars

(* Three runs returned, appended to a storage that was not empty, in an
   order other than the order of the returned list. *)
C12_Witness ==
  /\ multi_pc = "returned"
  /\ Len(returned) = MaxRuns
  /\ storage_before # <<>>
  /\ Appended # returned
  /\ SameBag(Appended, returned)

(* ------------------------------------------------------------------ *)
(* summarize_results                                                   *)
(* ------------------------------------------------------------------ *)
ReturnedFitnesses == {returned[i].best_fitness : i \in DOMAIN returned}

Smallest(S) == CHOOSE x \in S : \A y \in S : RLeq(x, y)
Largest(S) == CHOOSE x \in S : \A y \in S : RLeq(y, x)

MinMaxAndBest(s) ==
  /\ s.min = Smallest(ReturnedFitnesses)
  /\ s.max = Largest(ReturnedFitnesses)
  /\ \E i \in DOMAIN returned : s.best = returned[i]
  /\ s.best.best_fitness = s.max

MeanWithinRange(s) == RLeq(s.min, s.mean) /\ RLeq(s.mean, s.max)

(* C13 as amended: for a non-empty list summarize_results returns the
   smallest and the largest best_fitness as min and max and, as best result,
   an element of the list whose best_fitness is max; the mean is the
   floating-point sum of the list divided by its length, which lies between
   min and max for a list of one or two results. *)
C13_SummaryMinMaxBest ==
  summary # None =>
    /\ MinMaxAndBest(summary[1])
    /\ Len(returned) <= 2 => MeanWithinRange(summary[1])

(* C13 as stated: min and max are the smallest and largest best_fitness,
   min <= mean <= max, and the best result is an element of the list whose
   best_fitness is max. *)
C13_MeanBetweenMinAndMax ==
  summary # None =>
    /\ MinMaxAndBest(summary[1])
    /\ MeanWithinRange(summary[1])

(* A list of three results of different fitness whose greatest is not the
   first, summarized, and a list of two with its mean between them. *)
C13_Witness ==
  /\ summary # None
  /\ Len(returned) = 3
  /\ Cardinality(ReturnedFitnesses) = 3
  /\ returned[1].best_fitness # summary[1].max
  /\ summary[1].best.best_fitness = summary[1].max

(* ------------------------------------------------------------------ *)
(* C14                                                                 *)
(* ------------------------------------------------------------------ *)
BigramMetrics == {"same_finger", "row_skip", "alternating"}
TrigramMetrics == {"roll", "redirect_low", "inroll", "arpeggio"}
SymbolMetrics == {"home_position", "single_key", "total_keystrokes", "position_cost"}

(* The count a metric of an evaluation divides by: the corpus bigrams,
   trigrams or symbols that have a position in the layout; for
   shift_balance the symbols that have a position on layer 1 or 2. *)
DenominatorOf(e, metric) ==
  CASE metric \in BigramMetrics -> e.sums.bigram_counted
    [] metric \in TrigramMetrics -> e.sums.trigram_counted
    [] metric \in SymbolMetrics -> e.sums.total_chars
    [] metric = "shift_balance" -> e.sums.layer1_keystrokes + e.sums.layer2_keystrokes

(* Some(value) of a metric, None where the model has no exact value. *)
ValueOf(e, metric) ==
  IF metric = "position_cost" THEN e.scores.position_cost.exact
  ELSE Some(e.scores[metric])

IsFinite(value) == value = None \/ value[1][2] > 0

MetricIs(e, metric, q) ==
  IF DenominatorOf(e, metric) = 0 THEN ValueOf(e, metric) = Some(q)
  ELSE IsFinite(ValueOf(e, metric))

EmptyCorpus == DOMAIN corpus.char_freq = {}

(* C14 as stated: every sub-metric is 0 when its denominator is 0, and
   every sub-metric is 0 for an empty corpus. *)
C14_EveryMetricZero ==
  \A i \in DOMAIN last.evaluations :
    \A metric \in BigramMetrics \cup TrigramMetrics \cup SymbolMetrics \cup {"shift_balance"} :
      /\ MetricIs(last.evaluations[i], metric, <<0, 1>>)
      /\ EmptyCorpus => ValueOf(last.evaluations[i], metric) = Some(<<0, 1>>)

(* C14, amended: same_finger, row_skip, alternating, roll, redirect_low,
   inroll, arpeggio, home_position, single_key, total_keystrokes and
   position_cost are 0 when no corpus bigram, trigram or symbol that they
   count has a position in the layout, shift_balance is 100 when no corpus
   symbol has a position on layer 1 or 2, and no metric is the result of a
   division by zero; for an empty corpus the former are all 0 and
   shift_balance is 100. *)
C14_ZeroDenominator ==
  \A i \in DOMAIN last.evaluations :
    /\ \A metric \in BigramMetrics \cup TrigramMetrics \cup SymbolMetrics :
         /\ MetricIs(last.evaluations[i], metric, <<0, 1>>)
         /\ EmptyCorpus => ValueOf(last.evaluations[i], metric) = Some(<<0, 1>>)
    /\ MetricIs(last.evaluations[i], "shift_balance", <<100, 1>>)
    /\ EmptyCorpus => last.evaluations[i].scores.shift_balance = <<100, 1>>

(* Evaluated: improved_custom against an empty corpus, and against a
   corpus of one symbol it places, which has no bigram. *)
C14_Witness ==
  /\ Len(last.evaluations) = 1
  /\ last.evaluations[1].before = improved_custom
  /\ \/ EmptyCorpus
     \/ /\ last.evaluations[1].sums.total_chars > 0
        /\ last.evaluations[1].sums.bigram_counted = 0
        /\ last.evaluations[1].sums.layer1_keystrokes = 0

(* ------------------------------------------------------------------ *)
(* C15                                                                 *)
(* ------------------------------------------------------------------ *)
BigramMass == SumOver(DOMAIN corpus.bigram_freq, corpus.bigram_freq)

(* The count a bigram metric rates against bigram_counted. *)
RatedCount(e, metric) ==
  CASE metric = "same_finger" -> e.sums.bigram_counted - e.sums.same_finger
    [] metric = "row_skip" -> e.sums.bigram_counted - e.sums.row_skips
    [] metric = "alternating" -> e.sums.alternating

(* a positions half of the bigram mass of the corpus, b all of it, and the
   rate of the metric over the positioned bigrams is the same in both. *)
HalfAndFull(a, b, metric) ==
  /\ BigramMass > 0
  /\ 2 * a.sums.bigram_counted = BigramMass
  /\ b.sums.bigram_counted = BigramMass
  /\ RatedCount(a, metric) * b.sums.bigram_counted
       = RatedCount(b, metric) * a.sums.bigram_counted

(* C15: of two layouts evaluated against one corpus, one positioning half
   of the bigram mass and the other all of it at the same rate, the first
   scores at most half of what the second scores, for each of same_finger,
   row_skip and alternating. *)
C15_CoverageScaling ==
  \A i, j \in DOMAIN last.evaluations :
    \A metric \in BigramMetrics :
      HalfAndFull(last.evaluations[i], last.evaluations[j], metric)
        => RLeq(last.evaluations[i].scores[metric],
                RDiv(last.evaluations[j].scores[metric], <<2, 1>>))

(* ------------------------------------------------------------------ *)
(* C16                                                                 *)
(* ------------------------------------------------------------------ *)
RECURSIVE RPow(_, _)
RPow(x, n) == IF n = 0 THEN <<1, 1>> ELSE RMul(x, RPow(x, n - 1))

RECURSIVE RSum(_)
RSum(seq) == IF seq = <<>> THEN <<0, 1>> ELSE RAdd(seq[1], RSum(Tail(seq)))

RECURSIVE RProduct(_)
RProduct(seq) == IF seq = <<>> THEN <<1, 1>> ELSE RMul(seq[1], RProduct(Tail(seq)))

RECURSIVE WeightSum(_)
WeightSum(metrics) ==
  IF metrics = <<>> THEN 0 ELSE weights[metrics[1]] + WeightSum(Tail(metrics))

(* The bonus metrics of the model other than position_cost. *)
OtherBonusMetrics ==
  <<"single_key", "redirect_low", "roll", "inroll", "arpeggio", "shift_balance">>

(* A score divided by 100 and floored at 0.01. *)
Floored(score) == IF RLess(score, <<1, 1>>) THEN <<1, 100>> ELSE RDiv(score, <<100, 1>>)

ExactScore(e, metric) == ValueOf(e, metric)[1]

(* The product of the floored metrics raised to their weights. *)
WeightedProduct(e, metrics) ==
  RProduct([k \in DOMAIN metrics |->
              IF weights[metrics[k]] = 0 THEN <<1, 1>>
              ELSE RPow(Floored(ExactScore(e, metrics[k])), weights[metrics[k]])])

WeightedSum(e, metrics) ==
  RSum([k \in DOMAIN metrics |->
          IF weights[metrics[k]] = 0 THEN <<0, 1>>
          ELSE RMul(ExactScore(e, metrics[k]), RInt(weights[metrics[k]]))])

(* fitness = core_multiplier x (1 + bonus_sum / (bonus weights x 100)),
   where core_multiplier is 100 x the weighted geometric mean of the
   floored core metrics: stated without the root, as
   (core_multiplier / 100) ^ (sum of the core weights) = weighted product. *)
IsCombination(e, core, bonus) ==
  /\ WeightSum(bonus) > 0
  /\ RPow(RDiv(e.layout.fitness,
               RMul(<<100, 1>>,
                    RAdd(<<1, 1>>, RDiv(WeightedSum(e, bonus), RInt(WeightSum(bonus) * 100))))),
          WeightSum(core))
       = WeightedProduct(e, core)

(* The fitness has an exact value: position_cost has one or does not count. *)
HasExactFitness(e) == weights.position_cost = 0 \/ e.scores.position_cost.exact # None

(* C16 as stated: the fitness of an evaluated layout is the combination of
   six core metrics, position_cost among them, and of the bonus metrics
   without position_cost. *)
C16_SixCoreMetrics ==
  \A i \in DOMAIN last.evaluations :
    /\ HasExactFitness(last.evaluations[i])
    /\ IsCombination(last.evaluations[i], Append(CoreMetrics, "position_cost"),
                     OtherBonusMetrics)

(* C16, amended: the fitness of an evaluated layout is the combination of
   the five core metrics same_finger, row_skip, home_position,
   total_keystrokes and alternating, each divided by 100 and floored at
   0.01, and of the bonus metrics, position_cost among them with its weight
   in the sum of the bonus weights. *)
C16_FiveCoreMetrics ==
  \A i \in DOMAIN last.evaluations :
    IF HasExactFitness(last.evaluations[i])
    THEN IsCombination(last.evaluations[i], CoreMetrics,
                       Append(OtherBonusMetrics, "position_cost"))
    ELSE LET f == last.evaluations[i].layout.fitness
         IN /\ RPow(RDiv(f.core_multiplier, <<100, 1>>), WeightSum(CoreMetrics))
                 = WeightedProduct(last.evaluations[i], CoreMetrics)
            /\ f.additive_bonus.exact = WeightedSum(last.evaluations[i], OtherBonusMetrics)
            /\ f.additive_bonus.position_cost = last.evaluations[i].scores.position_cost
            /\ f.additive_bonus.weight = weights.position_cost
            /\ f.bonus_scale
                 = RInt(WeightSum(Append(OtherBonusMetrics, "position_cost")) * 100)

(* Evaluated under weights that count position_cost and shift_balance: a
   layout whose position_cost is exactly 0 and whose same_finger is below
   the floor. *)
C16_Witness ==
  /\ weights.position_cost > 0
  /\ weights.shift_balance > 0
  /\ \E i \in DOMAIN last.evaluations :
       /\ last.evaluations[i].scores.position_cost.exact = Some(<<0, 1>>)
       /\ last.evaluations[i].scores.same_finger = <<0, 1>>
       /\ last.evaluations[i].scores.shift_balance = <<100, 1>>
       /\ last.evaluations[i].layout.fitness = <<3, 2>>

(* ------------------------------------------------------------------ *)
(* C17                                                                 *)
(* ------------------------------------------------------------------ *)
(* The free cells of a layout that hold symbol s. *)
FreeHolders(layout, s) ==
  {k \in DOMAIN Cells : IsFree(Cells[k]) /\ At(layout.layers, Cells[k]) = s}

(* The symbols a layout holds in any cell, and the expected symbols. *)
SymbolsHeld(layout) == {At(layout.layers, Cells[k]) : k \in DOMAIN Cells}

ExpectedSymbols == {hiragana_chars[i] : i \in DOMAIN hiragana_chars}

IsSymbol(s) == s # BLANK /\ s # EMPTY

(* C17: after validate, duplicates are exactly the non-blank, non-empty
   symbols held by two or more free cells, missing are the expected symbols
   held by no free cell, extra are the symbols of free cells that are not
   expected, is_valid is true exactly when there are no duplicates, and the
   layout is as it was. *)
C17_ValidateReport ==
  last.op = "validate" =>
    /\ \A s \in SymbolsHeld(best_layout) \cup ExpectedSymbols \cup last.result.duplicates
                  \cup last.result.missing \cup last.result.extra :
         /\ s \in last.result.duplicates
              <=> IsSymbol(s) /\ Cardinality(FreeHolders(best_layout, s)) >= 2
         /\ s \in last.result.missing
              <=> s \in ExpectedSymbols /\ (FreeHolders(best_layout, s) = {} \/ ~IsSymbol(s))
         /\ s \in last.result.extra
              <=> IsSymbol(s) /\ FreeHolders(best_layout, s) # {} /\ s \notin ExpectedSymbols
    /\ last.is_valid <=> last.result.duplicates = {}
    /\ best_layout = last.before

(* Validated: a layout that repeats a symbol of a free cell in a fixed cell
   or a blank position only, with a missing and an extra symbol; and a
   layout with a symbol in two free cells. *)
C17_Witness ==
  /\ last.op = "validate"
  /\ \E s \in SymbolsHeld(best_layout) :
       /\ IsSymbol(s)
       /\ Cardinality(FreeHolders(best_layout, s)) = 1
       /\ \E k \in DOMAIN Cells : ~IsFree(Cells[k]) /\ At(best_layout.layers, Cells[k]) = s
  /\ last.is_valid
  /\ last.result.missing # {}
  /\ last.result.extra # {}

(* ------------------------------------------------------------------ *)
(* C18                                                                 *)
(* ------------------------------------------------------------------ *)
(* The distinct runs of n adjacent chars of the text. *)
DistinctRuns(text, n) ==
  {SubSeq(text, k, k + n - 1) : k \in 1..(Len(text) - n + 1)}

(* C18: after from_text, char_freq has one entry per distinct char of the
   text, bigram_freq one per distinct adjacent pair and trigram_freq one
   per distinct adjacent triple: 5, 4 and 3 entries for a text of five
   distinct chars. *)
C18_FromTextEntries ==
  last.op = "from_text" =>
    /\ DOMAIN corpus.char_freq = DistinctRuns(last.text, 1)
    /\ DOMAIN corpus.bigram_freq = DistinctRuns(last.text, 2)
    /\ DOMAIN corpus.trigram_freq = DistinctRuns(last.text, 3)
    /\ (Len(last.text) = 5 /\ Cardinality(DistinctRuns(last.text, 1)) = 5)
         => /\ Cardinality(DOMAIN corpus.char_freq) = 5
            /\ Cardinality(DOMAIN corpus.bigram_freq) = 4
            /\ Cardinality(DOMAIN corpus.trigram_freq) = 3

(* ------------------------------------------------------------------ *)
(* C19                                                                 *)
(* ------------------------------------------------------------------ *)
(* The cells of the layout that was evaluated, by traversal index. *)
SymbolAt(e, k) == At(e.before.layers, Cells[k])

(* The cell holds a symbol: neither the blank token nor an empty string. *)
HoldsSymbol(e, k) == Len(SymbolAt(e, k)) > 0 /\ SymbolAt(e, k) # BLANK

(* A symbol is looked up by the char the index is keyed by, its first. *)
Lookup(e, s) == e.char_map[s[1]]

(* C19 as stated: every symbol placed, a digraph too, is mapped to the
   first cell in traversal order that holds that symbol, and the blank
   token is no key. *)
C19_SymbolFirstOccurrence ==
  \A i \in DOMAIN last.evaluations :
    /\ \A k \in DOMAIN Cells :
         HoldsSymbol(last.evaluations[i], k)
           => /\ SymbolAt(last.evaluations[i], k)[1] \in DOMAIN last.evaluations[i].char_map
              /\ \E j \in 1..k :
                   /\ Lookup(last.evaluations[i], SymbolAt(last.evaluations[i], k)) = Cells[j]
                   /\ SymbolAt(last.evaluations[i], j) = SymbolAt(last.evaluations[i], k)
                   /\ \A h \in 1..(j - 1) :
                        SymbolAt(last.evaluations[i], h) # SymbolAt(last.evaluations[i], k)
    /\ BLANK[1] \notin DOMAIN last.evaluations[i].char_map

(* C19, amended: the index is keyed by the first char of the symbols
   placed; the first char of every symbol placed is mapped to the first
   cell in traversal order whose symbol starts with that char, whether that
   cell holds the symbol itself or another one; the keys are the first
   chars of the symbols placed and the char of the blank token is no key. *)
C19_FirstCharFirstOccurrence ==
  \A i \in DOMAIN last.evaluations :
    /\ \A k \in DOMAIN Cells :
         HoldsSymbol(last.evaluations[i], k)
           => SymbolAt(last.evaluations[i], k)[1] \in DOMAIN last.evaluations[i].char_map
    /\ \A c \in DOMAIN last.evaluations[i].char_map :
         \E j \in DOMAIN Cells :
           /\ last.evaluations[i].char_map[c] = Cells[j]
           /\ HoldsSymbol(last.evaluations[i], j)
           /\ SymbolAt(last.evaluations[i], j)[1] = c
           /\ \A h \in 1..(j - 1) :
                \/ Len(SymbolAt(last.evaluations[i], h)) = 0
                \/ SymbolAt(last.evaluations[i], h)[1] # c
    /\ BLANK[1] \notin DOMAIN last.evaluations[i].char_map

(* Evaluated: a layout that holds a digraph in a cell after the cell of
   its first char, so that the digraph is looked up at another symbol. *)
C19_Witness ==
  \E i \in DOMAIN last.evaluations :
    \E k \in DOMAIN Cells :
      /\ Len(SymbolAt(last.evaluations[i], k)) = 2
      /\ Lookup(last.evaluations[i], SymbolAt(last.evaluations[i], k)) # Cells[k]
      /\ Len(At(last.evaluations[i].before.layers,
                Lookup(last.evaluations[i], SymbolAt(last.evaluations[i], k)))) = 1

(* ------------------------------------------------------------------ *)
(* C20                                                                 *)
(* ------------------------------------------------------------------ *)
CellSet == {Cells[k] : k \in DOMAIN Cells}

FixedPositions == {p \in CellSet : is_fixed_position(p[1], p[2], p[3])}

BlankPositions == {p \in CellSet : is_blank_position(p[1], p[2], p[3])}

(* The cells a sequence of writes leaves other than blank on blank layers. *)
ForceWritten(Write(_)) == {p \in CellSet : At(Write(BlankLayers), p) # BLANK}

(* C20: is_fixed_position holds of exactly the 8 cells that
   random_with_chars and repair_layout force-write, with the same symbol
   in both and in improved_custom; is_blank_position holds of exactly 4
   other cells; 124 - 8 - 4 = 112 cells are free, as many as
   HIRAGANA_FREQ_DEFAULT has symbols; and every member of a population,
   which both have written, holds those symbols in the fixed cells and the
   blank token in the blank positions. *)
C20_GeometryConsistent ==
  /\ FixedPositions = ForceWritten(WriteFixed)
  /\ FixedPositions = ForceWritten(ForceFixed)
  /\ Cardinality(FixedPositions) = 8
  /\ \A p \in FixedPositions :
       /\ At(WriteFixed(BlankLayers), p) = At(ForceFixed(BlankLayers), p)
       /\ At(WriteFixed(BlankLayers), p) = At(improved_custom.layers, p)
  /\ Cardinality(BlankPositions) = 4
  /\ BlankPositions \cap FixedPositions = {}
  /\ Cardinality(CellSet) = 124
  /\ Len(FreeCells) = 124 - 8 - 4
  /\ Len(FreeCells) = 112
  /\ Len(HIRAGANA_FREQ_DEFAULT) = Len(FreeCells)
  /\ \A i \in DOMAIN population :
       /\ \A p \in FixedPositions :
            At(population[i].layers, p) = At(improved_custom.layers, p)
       /\ \A p \in BlankPositions : At(population[i].layers, p) = BLANK

(* A population with a member that random_with_chars built and
   repair_layout repaired. *)
C20_Witness ==
  /\ Len(population) >= 2
  /\ \E i \in DOMAIN population : population[i].layers # improved_custom.layers

(* ------------------------------------------------------------------ *)
(* C21                                                                 *)
(* ------------------------------------------------------------------ *)
(* The contents of all cells in traversal order. *)
AllContents(layers) == [k \in DOMAIN Cells |-> At(layers, Cells[k])]

(* after is before with the contents of free cells i and j exchanged. *)
IsExchange(before, after, i, j) ==
  /\ At(after, FreeCells[i]) = At(before, FreeCells[j])
  /\ At(after, FreeCells[j]) = At(before, FreeCells[i])
  /\ \A k \in DOMAIN Cells :
       Cells[k] \notin {FreeCells[i], FreeCells[j]}
         => At(after, Cells[k]) = At(before, Cells[k])

(* Costs in tenths at most 0.1 apart; counts both zero, or both positive
   with the ratio of the second to the first within [0.9, 1.1]. *)
WithinBands(before, i, j) ==
  /\ PositionCost(i) - PositionCost(j) \in -1..1
  /\ LET f1 == string_freq(corpus, At(before, FreeCells[i]))
         f2 == string_freq(corpus, At(before, FreeCells[j]))
     IN \/ f1 = 0 /\ f2 = 0
        \/ f1 > 0 /\ f2 > 0 /\ 9 * f1 <= 10 * f2 /\ 10 * f2 <= 11 * f1

(* C21: a layout that mutate changed is the layout before with the
   contents of two distinct free cells exchanged, the first pick and a
   partner within the cost band and the frequency band; the fixed cells and
   the blank positions are as before and the symbols of the layout are the
   same bag. *)
C21_MutateIsBandedExchange ==
  (last.op = "mutate" /\ best_layout.layers # last.before)
    => /\ \E i, j \in DOMAIN FreeCells :
            /\ i # j
            /\ i = last.idx1
            /\ IsExchange(last.before, best_layout.layers, i, j)
            /\ WithinBands(last.before, i, j)
       /\ \A k \in DOMAIN Cells :
            ~IsFree(Cells[k]) => At(best_layout.layers, Cells[k]) = At(last.before, Cells[k])
       /\ SameBag(AllContents(best_layout.layers), AllContents(last.before))

(* mutate exchanged two symbols that the corpus holds. *)
C21_Witness ==
  /\ last.op = "mutate"
  /\ best_layout.layers # last.before
  /\ last.idx2 > 0
  /\ string_freq(corpus, At(last.before, FreeCells[last.idx1])) > 0

(* ------------------------------------------------------------------ *)
(* C22                                                                 *)
(* ------------------------------------------------------------------ *)
(* No symbol to keep: a fixed symbol, the blank token or the empty string. *)
Unplaceable(s) == s \in fixed_chars \/ s = BLANK \/ s = EMPTY

(* The free cells (by index into FreeCells) that repair finds defective:
   they hold no symbol to keep, or a symbol that an earlier free cell holds. *)
DefectiveCells(layers) ==
  {k \in DOMAIN FreeCells :
     \/ Unplaceable(At(layers, FreeCells[k]))
     \/ \E j \in 1..(k - 1) : At(layers, FreeCells[j]) = At(layers, FreeCells[k])}

(* The entries of the universe (by index) that no free cell holds. *)
MissingEntries(layers) ==
  {i \in DOMAIN hiragana_chars :
     /\ hiragana_chars[i] \notin fixed_chars
     /\ \/ Unplaceable(hiragana_chars[i])
        \/ \A k \in DOMAIN FreeCells : At(layers, FreeCells[k]) # hiragana_chars[i]}

(* The place of a defective cell by ascending cost, scan order among equal
   costs; of a missing entry by descending frequency, universe order among
   equal frequencies. *)
CellPlace(defective, k) ==
  1 + Cardinality({d \in defective :
                     \/ PositionCost(d) < PositionCost(k)
                     \/ PositionCost(d) = PositionCost(k) /\ d < k})

EntryPlace(missing, i) ==
  1 + Cardinality({m \in missing :
                     \/ string_freq(corpus, hiragana_chars[m])
                          > string_freq(corpus, hiragana_chars[i])
                     \/ /\ string_freq(corpus, hiragana_chars[m])
                             = string_freq(corpus, hiragana_chars[i])
                        /\ m < i})

(* C22: repair gives the k-th defective free cell by ascending cost the
   k-th missing symbol by descending frequency, and leaves the free cells
   that are not defective as they are. *)
C22_RepairPairing ==
  last.op = "crossover" =>
    \A defective \in {DefectiveCells(last.raw)}, missing \in {MissingEntries(last.raw)} :
      \A k \in DOMAIN FreeCells :
        IF k \in defective
        THEN \A i \in missing :
               EntryPlace(missing, i) = CellPlace(defective, k)
                 => At(last.child, FreeCells[k]) = hiragana_chars[i]
        ELSE At(last.child, FreeCells[k]) = At(last.raw, FreeCells[k])

(* A child with two defective cells of which the later in scan order is
   the cheaper, two missing symbols of which the later in the universe is
   the more frequent, and two more of equal positive frequency. *)
C22_Witness ==
  /\ last.op = "crossover"
  /\ \E defective \in {DefectiveCells(last.raw)}, missing \in {MissingEntries(last.raw)} :
        /\ \E k, d \in defective :
              /\ d < k /\ PositionCost(k) < PositionCost(d)
              /\ At(last.child, FreeCells[k]) # At(last.child, FreeCells[d])
        /\ \E i, m \in missing :
              /\ m < i
              /\ string_freq(corpus, hiragana_chars[m])
                   < string_freq(corpus, hiragana_chars[i])
              /\ EntryPlace(missing, m) <= Cardinality(defective)
        /\ \E i, m \in missing :
              /\ m < i
              /\ string_freq(corpus, hiragana_chars[m])
                   = string_freq(corpus, hiragana_chars[i])
              /\ string_freq(corpus, hiragana_chars[m]) > 0
              /\ EntryPlace(missing, i) <= Cardinality(defective)

(* ------------------------------------------------------------------ *)
(* C23                                                                 *)
(* ------------------------------------------------------------------ *)
(* The symbols of the universe that no free cell of the layout holds. *)
MissingSymbols(layers) ==
  {hiragana_chars[i] : i \in DOMAIN hiragana_chars}
    \ {At(layers, FreeCells[k]) : k \in DOMAIN FreeCells}

(* Cell by cell, the child before repair is made of its parents. *)
MadeOfParents(raw, parent1, parent2) ==
  \A k \in DOMAIN Cells :
    LET p == Cells[k]
    IN IF is_fixed_position(p[1], p[2], p[3]) THEN At(raw, p) = At(parent1, p)
       ELSE IF is_blank_position(p[1], p[2], p[3]) THEN At(raw, p) = BLANK
       ELSE At(raw, p) \in {At(parent1, p), At(parent2, p)}

(* C23: before repair every free cell of a crossover child holds what one
   of its parents holds there, every fixed cell what parent A holds and
   every blank position the blank token; a free cell of the returned child
   holds one of its parents' symbols for that cell or a symbol the child
   was missing. *)
C23_CrossoverChild ==
  last.op = "crossover" =>
    /\ MadeOfParents(last.raw, population[1].layers, population[2].layers)
    /\ \A missing \in {MissingSymbols(last.raw)} :
         \A k \in DOMAIN FreeCells :
           At(last.child, FreeCells[k])
             \in {At(population[1].layers, FreeCells[k]),
                  At(population[2].layers, FreeCells[k])} \cup missing

(* ------------------------------------------------------------------ *)
(* C24                                                                 *)
(* ------------------------------------------------------------------ *)
EliteCount == IF config.elite_count < Len(population) THEN config.elite_count
              ELSE Len(population)

(* C24: while a generation is bred, the first min(elite_count, population
   size) members of the next population are those of the sorted current
   population, with the same cells and the same fitness, and they are in
   place before the first child. *)
C24_ElitesCarried ==
  pc = "breed" =>
    /\ Len(new_population) >= EliteCount
    /\ \A i \in 1..EliteCount :
         /\ new_population[i].layers = population[i].layers
         /\ new_population[i].fitness = population[i].fitness
    /\ last.op = "elite" => Len(new_population) = EliteCount

(* A generation of two different members, the fitter of which was carried
   over unchanged before a child was bred. *)
C24_Witness ==
  /\ pc = "breed"
  /\ last.op = "breed"
  /\ config.elite_count = 1
  /\ Len(population) = 2
  /\ Len(new_population) = 2
  /\ population[1].layers # population[2].layers
  /\ population[1].fitness # population[2].fitness

(* ------------------------------------------------------------------ *)
(* C25                                                                 *)
(* ------------------------------------------------------------------ *)
(* The next `count` indices (from 1) that gen_range(0..n) yields from
   generator state s. *)
RECURSIVE SampledIndices(_, _, _)
SampledIndices(s, n, count) ==
  IF count = 0 THEN <<>>
  ELSE <<gen_range(s, n).v + 1>> \o SampledIndices(gen_range(s, n).rng, n, count - 1)

(* The first of the sampled indices whose member is the fittest sampled. *)
FirstFittest(pop, samples) ==
  samples[CHOOSE k \in DOMAIN samples :
            /\ \A j \in DOMAIN samples : ~RLess(pop[samples[k]].fitness, pop[samples[j]].fitness)
            /\ \A j \in 1..(k - 1) : RLess(pop[samples[j]].fitness, pop[samples[k]].fitness)]

(* C25: each parent of a child is the member of the current population
   that is the first of the fittest among the 5 indices sampled for it, and
   the selection leaves the population as it is. *)
C25_TournamentSelect ==
  [][(pc = "breed" /\ Len(new_population') = Len(new_population) + 1)
       => \A samples \in {SampledIndices(rng, Len(population), 2 * tournament_size)} :
            /\ last'.parent1
                 = population[FirstFittest(population, SubSeq(samples, 1, tournament_size))]
            /\ last'.parent2
                 = population[FirstFittest(population,
                                SubSeq(samples, tournament_size + 1, 2 * tournament_size))]
            /\ population' = population]_vars

(* A tournament over two different members of equal fitness that sampled
   the second member first and the first member later. *)
C25_Witness ==
  /\ last.op = "breed"
  /\ Len(population) = 2
  /\ population[1].layers # population[2].layers
  /\ population[1].fitness = population[2].fitness
  /\ \E samples \in {SubSeq(SampledIndices(last.rng, 2, 2 * tournament_size), 1, tournament_size),
                      SubSeq(SampledIndices(last.rng, 2, 2 * tournament_size),
                             tournament_size + 1, 2 * tournament_size)} :
        /\ samples[1] = 2
        /\ \E j \in DOMAIN samples : samples[j] = 1

(* ------------------------------------------------------------------ *)
(* C26                                                                 *)
(* ------------------------------------------------------------------ *)
SortedByFitness(pop) ==
  \A i, j \in DOMAIN pop : i < j => ~RLess(pop[i].fitness, pop[j].fitness)

(* C26: with population_size >= 1 the population holds population_size
   layouts from generation 0 on, sorted by descending fitness, and the run
   never reads the first member of an empty population. *)
C26_PopulationSize ==
  config.population_size >= 1 =>
    /\ pc # "panic"
    /\ pc \in {"elite", "breed", "final", "done"} =>
         /\ Len(population) = config.population_size
         /\ SortedByFitness(population)

(* A finished run of two generations whose elite_count is above its
   population size. *)
C26_Witness ==
  /\ config.population_size = 1
  /\ config.elite_count = 2
  /\ pc = "final"
  /\ Len(callbacks) = 3

(* ------------------------------------------------------------------ *)
(* C27                                                                 *)
(* ------------------------------------------------------------------ *)
WithElites == config.elite_count >= 1 /\ config.population_size >= 1

(* C27: with at least one elite the fittest member of the current
   population has the best-ever fitness at every generation, and the
   fittest member of the next population is never less fit than that of
   the current one. *)
C27_ElitismMonotone ==
  /\ [](WithElites /\ pc \in {"elite", "breed", "final"}
          => population[1].fitness = best_fitness)
  /\ [][(WithElites /\ pc = "breed" /\ pc' \in {"elite", "final"})
          => ~RLess(population'[1].fitness, population[1].fitness)]_vars

(* A run with one elite whose second generation holds a member less fit
   than its fittest, which is fitter than the best of generation 0. *)
C27_Witness ==
  /\ config.elite_count = 1
  /\ config.population_size = 2
  /\ pc = "final"
  /\ Len(callbacks) = 3
  /\ RLess(population[2].fitness, population[1].fitness)
  /\ RLess(callbacks[1].best_fitness, population[1].fitness)

(* ------------------------------------------------------------------ *)
(* C28                                                                 *)
(* ------------------------------------------------------------------ *)
(* C28: repair_layout applied to a layout that repair_layout produced,
   with the same universe and corpus, changes no cell. *)
C28_RepairIdempotent ==
  last.op = "repair" =>
    \A k \in DOMAIN Cells : At(best_layout.layers, Cells[k]) = At(last.before, Cells[k])

(* The second repair of a child whose first repair replaced the content of
   a defective cell, and which still has a cell the scan finds defective. *)
C28_Witness ==
  /\ last.op = "repair"
  /\ population[1].layers # population[2].layers
  /\ \E k \in DOMAIN FreeCells :
       At(last.before, FreeCells[k])
         \notin {At(population[1].layers, FreeCells[k]), At(population[2].layers, FreeCells[k])}
  /\ DefectiveCells(last.before) # {}

(* ------------------------------------------------------------------ *)
(* C29                                                                 *)
(* ------------------------------------------------------------------ *)
(* The mutex a thread of run_single is waiting for, if any. *)
WantedBy(thread) ==
  IF thread = "main"
  THEN CASE single.main = "lock_first" -> Some(CallbackLocks[1])
         [] single.main = "lock_second" -> Some(CallbackLocks[2])
         [] OTHER -> None
  ELSE CASE single.handler = "lock_layout" -> Some("best_layout")
         [] single.handler = "lock_fitness" -> Some("best_fitness")
         [] OTHER -> None

(* thread waits for a mutex that `holder` holds. *)
WaitsFor(thread, holder) ==
  /\ WantedBy(thread) # None
  /\ single.mutex[WantedBy(thread)[1]] = Some(holder)

(* C29: in run_single the callback and the Ctrl+C handler hold the
   best-fitness mutex only while they hold the best-layout mutex, neither
   waits for a mutex while the other waits for one it holds, and the layout
   and the fitness the handler has read were written by the same callback
   invocation; with no layout stored it reads no fitness. *)
C29_LockOrder ==
  /\ \A thread \in {"main", "handler"} :
       /\ single.mutex.best_fitness = Some(thread) => single.mutex.best_layout = Some(thread)
       /\ ~WaitsFor(thread, thread)
  /\ ~(WaitsFor("main", "handler") /\ WaitsFor("handler", "main"))
  /\ single.seen.fitness # None =>
       /\ single.seen.layout # None
       /\ single.seen.fitness[1].by = single.seen.layout
  /\ (single.handler = "exited" /\ single.seen.layout = None) => single.exit = Some(1)

(* The handler has read what the callback of generation 1 wrote, while
   the callback of a later generation waits for the best-layout mutex. *)
C29_Witness ==
  /\ single.handler = "save"
  /\ single.seen.layout = Some(1)
  /\ single.seen.fitness = Some([value |-> 1, by |-> Some(1)])
  /\ WaitsFor("main", "handler")
  /\ single.gen = 2

(* ------------------------------------------------------------------ *)
(* C30                                                                 *)
(* ------------------------------------------------------------------ *)
(* A thread stands at a lock() of the state mutex. *)
AtStateLock(thread) ==
  CASE thread = "tui" -> tui.thread \in {"lock_check", "lock_key", "lock_sleep"}
    [] thread = "main" -> \/ tui.main = "lock_callback"
                          \/ tui.main = "joined" /\ tui.mode = "single"
    [] OTHER -> tui.handler = "lock" /\ tui.mode = "single"

MainPastJoin == tui.main \in {"joined", "report", "returned"}

(* C30: once TuiState.running is false it stays false, the TUI thread
   leaves its loop at its next test of the flag and terminates, the join of
   the main thread returns, and no thread is at a lock() of the state mutex
   while it holds that mutex. A process ended by the Ctrl+C handler has
   ended its threads. *)
C30_Shutdown ==
  /\ [][~tui.running => ~tui'.running]_vars
  /\ [][(tui.thread = "check" /\ ~tui.running /\ tui'.thread # tui.thread)
          => tui'.thread = "cleanup"]_vars
  /\ ~tui.running ~> (tui.thread = "terminated" \/ tui.exit)
  /\ ~tui.running ~> (MainPastJoin \/ tui.exit)
  /\ [](\A thread \in {"tui", "main", "handler"} :
          AtStateLock(thread) => tui.mutex # Some(thread))

(* The main thread has cleared the flag and waits in join while the TUI
   thread, still in its loop, holds the mutex at the test of the flag. *)
C30_Witness ==
  /\ tui.main = "join"
  /\ ~tui.running
  /\ tui.thread = "check"
  /\ tui.mutex = Some("tui")
  /\ ~tui.exit
====
